---- MODULE Spec2Model ----
(***************************************************************************)
(* Model of the vulcand/route request router: the char iterator, the       *)
(* pattern matchers, the trie matcher (parse, match, merge, chain), the    *)
(* request mappers, the regexp and and-matchers, and the route table with  *)
(* its readers-writer lock.                                                *)
(*                                                                         *)
(* Strings are sequences of byte codes.  Positions (si, i) and pattern     *)
(* offsets are 0-based as in the Go source; a TLA+ sequence is indexed     *)
(* with the position plus one.                                             *)
(***************************************************************************)
EXTENDS Integers, Sequences, FiniteSets, TLC

VARIABLES
    aliases,    \* Mux.aliases: the list of (match, replace) pairs
    routes,     \* router.routes: expression -> *match
    matchers,   \* router.matchers: the compiled list
    ret,        \* what the last completed router operation did and returned
    pin,        \* inputs of the trie operations (two patterns, a request)
    pout,       \* result of the last trie operation applied to pin
    mutex,      \* router.mutex: [w |-> writer or 0, r |-> set of readers]
    pc,         \* position of every goroutine in its router call
    loc         \* locals of every goroutine

vars == <<aliases, routes, matchers, ret, pin, pout, mutex, pc, loc>>

----
(* Bytes *)

pathSep == 47
domainSep == 46
headerSep == 47
methodSep == 32

\* unicode.IsDigit on a byte
IsDigit(c) == c >= 48 /\ c <= 57

\* strings.ToLower on ASCII bytes
ToLower(s) == [k \in 1..Len(s) |-> IF s[k] >= 65 /\ s[k] <= 90 THEN s[k] + 32 ELSE s[k]]

\* index (1-based) of the first occurrence of byte c in s at or after k, 0 if none
RECURSIVE IndexFrom(_, _, _)
IndexFrom(s, c, k) ==
    IF k > Len(s) THEN 0
    ELSE IF s[k] = c THEN k
    ELSE IndexFrom(s, c, k + 1)

\* strings.Split(s, sep) for a one-byte separator
RECURSIVE Split(_, _)
Split(s, c) ==
    LET k == IndexFrom(s, c, 1) IN
    IF k = 0 THEN <<s>>
    ELSE <<SubSeq(s, 1, k - 1)>> \o Split(SubSeq(s, k + 1, Len(s)), c)

\* strings.Contains(s, sub)
Contains(s, sub) ==
    \E k \in 0..(Len(s) - Len(sub)) : SubSeq(s, k + 1, k + Len(sub)) = sub

\* byte-wise string comparison a < b, as sort.StringSlice.Less
RECURSIVE StrLess(_, _)
StrLess(a, b) ==
    IF Len(b) = 0 THEN FALSE
    ELSE IF Len(a) = 0 THEN TRUE
    ELSE IF a[1] # b[1] THEN a[1] < b[1]
    ELSE StrLess(Tail(a), Tail(b))

----
(* Char iterator *)

newIter(seq, sep) == [seq |-> seq, sep |-> sep, i |-> 0, si |-> 0]

level(c) == c.si

isEnd(c) ==
    \/ Len(c.seq) = 0
    \/ (c.si >= Len(c.seq) - 1 /\ c.i >= Len(c.seq[c.si + 1]))
    \/ Len(c.seq[c.si + 1]) = 0

position(c) == [i |-> c.i, si |-> c.si]

setPosition(c, p) == [c EXCEPT !.i = p.i, !.si = p.si]

\* a pushBack that stays at the start of a string
pushBack_noBoundary(c) ==
    IF c.i = 0 THEN c ELSE [c EXCEPT !.i = c.i - 1]

pushBack(c) ==
    IF c.i = 0 /\ c.si = 0 THEN c
    ELSE IF c.i = 0 /\ c.si # 0
         THEN [c EXCEPT !.si = c.si - 1, !.i = Len(c.seq[c.si]) - 1]
         ELSE [c EXCEPT !.i = c.i - 1]

\* next returns the byte, its separator, ok, and the advanced iterator
next(c) ==
    IF isEnd(c) THEN [b |-> 0, sep |-> 0, ok |-> FALSE, it |-> c]
    ELSE LET i1 == c.i + 1 IN
         [b |-> c.seq[c.si + 1][c.i + 1],
          sep |-> c.sep[c.si + 1],
          ok |-> TRUE,
          it |-> IF i1 >= Len(c.seq[c.si + 1]) /\ c.si < Len(c.seq) - 1
                 THEN [c EXCEPT !.si = c.si + 1, !.i = 0]
                 ELSE [c EXCEPT !.i = i1]]

----
(* Pattern matchers *)

NoPM == [kind |-> "none", name |-> <<>>]

\* the type names "string", "path", "int" of makeMatcher
TypeString == <<115, 116, 114, 105, 110, 103>>
TypePath == <<112, 97, 116, 104>>
TypeInt == <<105, 110, 116>>

RECURSIVE pathMatcher_grabValue(_), pathMatcher_grabbed(_, _)
\* the loop of pathMatcher.grabValue after next() returned n
pathMatcher_grabbed(it, n) == IF ~n.ok THEN it ELSE pathMatcher_grabValue(n.it)

pathMatcher_grabValue(it) == pathMatcher_grabbed(it, next(it))

RECURSIVE stringMatcher_grabValue(_), stringMatcher_grabbed(_, _)
\* a loop that consumes the separator it stops at
stringMatcher_grabbed_noPushBack(it, n) ==
    IF ~n.ok THEN it
    ELSE IF n.b = n.sep THEN n.it
    ELSE stringMatcher_grabValue(n.it)

\* the loop of stringMatcher.grabValue after next() returned n
stringMatcher_grabbed(it, n) ==
    IF ~n.ok THEN it
    ELSE IF n.b = n.sep THEN pushBack(n.it)
    ELSE stringMatcher_grabValue(n.it)

stringMatcher_grabValue(it) == stringMatcher_grabbed(it, next(it))

RECURSIVE pushBackN(_, _)
pushBackN(it, count) ==
    IF count = 0 THEN it ELSE pushBackN(pushBack(it), count - 1)

RECURSIVE intMatcher_loop(_, _), intMatcher_step(_, _)
\* an iteration that, on rejection, pushes back the digits but not the byte
\* that ended them
intMatcher_step_shortPushBack(n, count) ==
    IF ~IsDigit(n.b)
    THEN IF n.b = n.sep
         THEN [ok |-> TRUE, it |-> pushBack(n.it)]
         ELSE [ok |-> FALSE, it |-> pushBackN(n.it, count - 1)]
    ELSE IF ~n.ok THEN [ok |-> TRUE, it |-> n.it]
    ELSE intMatcher_loop(n.it, count)

\* one iteration of intMatcher.match after next() returned n and count++
intMatcher_step(n, count) ==
    IF ~IsDigit(n.b)
    THEN IF n.b = n.sep
         THEN [ok |-> TRUE, it |-> pushBack(n.it)]
         ELSE [ok |-> FALSE, it |-> pushBackN(n.it, count)]
    ELSE IF ~n.ok THEN [ok |-> TRUE, it |-> n.it]
    ELSE intMatcher_loop(n.it, count)

\* intMatcher.match; count is the number of next() calls made so far
intMatcher_loop(it, count) == intMatcher_step(next(it), count + 1)

intMatcher_match(it) == intMatcher_loop(it, 0)

\* patternMatcher.match, dispatched on the variant
patternMatcher_match(pm, it) ==
    IF pm.kind = "string" THEN [ok |-> TRUE, it |-> stringMatcher_grabValue(it)]
    ELSE IF pm.kind = "path" THEN [ok |-> TRUE, it |-> pathMatcher_grabValue(it)]
    ELSE intMatcher_match(it)

\* patternMatcher.equals: same variant and same name
patternMatcher_equals(a, b) == a.kind = b.kind /\ a.name = b.name

\* a makeMatcher that takes the first argument as the name and ignores the
\* others
makeMatcher_lenient(matcherType, matcherArgs) ==
    IF matcherType \notin {TypeString, TypePath, TypeInt} \/ Len(matcherArgs) = 0
    THEN [pm |-> NoPM, err |-> TRUE]
    ELSE [pm |-> [kind |-> IF matcherType = TypeString THEN "string"
                           ELSE IF matcherType = TypePath THEN "path" ELSE "int",
                  name |-> matcherArgs[1]],
          err |-> FALSE]

\* makeMatcher with the new*Matcher argument checks
makeMatcher(matcherType, matcherArgs) ==
    IF matcherType \notin {TypeString, TypePath, TypeInt} \/ Len(matcherArgs) # 1
    THEN [pm |-> NoPM, err |-> TRUE]
    ELSE [pm |-> [kind |-> IF matcherType = TypeString THEN "string"
                           ELSE IF matcherType = TypePath THEN "path" ELSE "int",
                  name |-> matcherArgs[1]],
          err |-> FALSE]

\* the matcher of the values between '<' and '>', split at ':'
makeFromValues(values) ==
    IF Len(values) = 1 THEN makeMatcher(TypeString, values)
    ELSE makeMatcher(values[1], Tail(values))

\* the result of parsePatternMatcher once makeMatcher returned mk
madeMatcher(mk, offset, gt) ==
    IF mk.err THEN [pm |-> NoPM, err |-> TRUE, newOffset |-> offset]
    ELSE [pm |-> mk.pm, err |-> FALSE, newOffset |-> gt]

\* parsePatternMatcher with gt the index of the first '>' after the '<'
parsePatternUpTo(offset, pattern, gt) ==
    IF gt = 0 \/ gt = offset + 2
    THEN [pm |-> NoPM, err |-> FALSE, newOffset |-> -1]
    ELSE madeMatcher(makeFromValues(Split(SubSeq(pattern, offset + 2, gt - 1), 58)),
                     offset, gt)

\* parsePatternMatcher(offset, pattern): reParam is ^<([^>]+)>
parsePatternMatcher(offset, pattern) ==
    IF pattern[offset + 1] # 60
    THEN [pm |-> NoPM, err |-> FALSE, newOffset |-> -1]
    ELSE parsePatternUpTo(offset, pattern, IndexFrom(pattern, 62, offset + 2))

----
(* Matches and trie nodes *)

\* a nil *match
NilMatch == [id |-> <<>>, val |-> 0]

\* the &match{} the *TrieMatcher constructors start from
BlankMatch == [id |-> <<0>>, val |-> 0]

Node(lvl, ch, pm, children, matches) ==
    [level |-> lvl, children |-> children, matches |-> matches,
     char |-> ch, patternMatcher |-> pm]

isRoot(t) == t.char = 0 /\ t.patternMatcher = NoPM

isPatternMatcher(t) == t.patternMatcher # NoPM

isMatching(t) == Len(t.matches) # 0

\* t with the parsed child sub as its only child
withChild(t, sub) == [err |-> sub.err, node |-> [t EXCEPT !.children = <<sub.node>>]]

RECURSIVE parseExpression(_, _, _, _), parseChild(_, _, _, _, _)
\* parseExpression after parsePatternMatcher returned p: the child is a
\* pattern matcher node or a character node
parseChild(t, offset, pattern, m, p) ==
    IF p.err THEN [err |-> TRUE, node |-> t]
    ELSE withChild(t,
             IF p.pm # NoPM
             THEN parseExpression(Node(0, 0, p.pm, <<>>, <<>>), p.newOffset - 1, pattern, m)
             ELSE parseExpression(Node(0, pattern[offset + 2], NoPM, <<>>, <<>>),
                                  offset + 1, pattern, m))

\* trieNode.parseExpression: the node with its subtree built, or an error
parseExpression(t, offset, pattern, m) ==
    IF offset >= Len(pattern) - 1
    THEN [err |-> FALSE, node |-> [t EXCEPT !.matches = <<m>>]]
    ELSE parseChild(t, offset, pattern, m, parsePatternMatcher(offset + 1, pattern))

----
(* Trie nodes: levels, match node, equality, merge, match *)

\* a setLevel that does not raise the level at the root of a chained trie
RECURSIVE setLevel_flat(_, _)
setLevel_flat(t, lvl) ==
    [t EXCEPT !.level = IF lvl < 0 THEN 0 ELSE lvl,
              !.children = [k \in 1..Len(t.children) |->
                               setLevel_flat(t.children[k], IF lvl < 0 THEN 0 ELSE lvl)]]

RECURSIVE setLevel(_, _)
setLevel(t, lvl) ==
    LET l == IF isRoot(t) THEN lvl + 1 ELSE lvl IN
    IF Len(t.matches) # 0
    THEN [t EXCEPT !.level = l]
    ELSE [t EXCEPT !.level = l,
                   !.children = [k \in 1..Len(t.children) |-> setLevel(t.children[k], l)]]

\* does the subtree of t hold a node with matches
RECURSIVE hasMatchNode(_)
hasMatchNode(t) ==
    Len(t.matches) # 0 \/ \E k \in 1..Len(t.children) : hasMatchNode(t.children[k])

\* trieNode.findMatchNode: the first node with matches, depth first
RECURSIVE findMatchNode(_)
findMatchNode(t) ==
    IF Len(t.matches) # 0 THEN t
    ELSE LET k == CHOOSE k \in 1..Len(t.children) :
                      /\ hasMatchNode(t.children[k])
                      /\ \A j \in 1..(k - 1) : ~hasMatchNode(t.children[j])
         IN findMatchNode(t.children[k])

\* the tree t after the node findMatchNode returns has been assigned through
\* the pointer: its matches and its children replaced
RECURSIVE updateMatchNode(_, _, _, _)
updateMatchNode(t, setChildren, children, matches) ==
    IF Len(t.matches) # 0
    THEN [t EXCEPT !.matches = matches,
                   !.children = IF setChildren THEN children ELSE t.children]
    ELSE IF ~hasMatchNode(t) THEN t
    ELSE LET k == CHOOSE k \in 1..Len(t.children) :
                      /\ hasMatchNode(t.children[k])
                      /\ \A j \in 1..(k - 1) : ~hasMatchNode(t.children[j])
         IN [t EXCEPT !.children[k] =
                 updateMatchNode(t.children[k], setChildren, children, matches)]

\* trieNode.setMatch
trieNode_setMatch(t, m) == updateMatchNode(t, FALSE, <<>>, <<m>>)

\* trieNode.equals, with Go's precedence of && over ||
trieNode_equals(t, o) ==
    \/ /\ t.level = o.level
       /\ t.char = o.char
       /\ t.patternMatcher = NoPM /\ o.patternMatcher = NoPM
    \/ /\ t.patternMatcher # NoPM /\ o.patternMatcher # NoPM
       /\ patternMatcher_equals(t.patternMatcher, o.patternMatcher)

\* the elements of s at the indices that satisfy keep, in order
RECURSIVE SelectIdx(_, _, _)
SelectIdx(s, keep, k) ==
    IF k > Len(s) THEN <<>>
    ELSE (IF k \in keep THEN <<s[k]>> ELSE <<>>) \o SelectIdx(s, keep, k + 1)

RECURSIVE trieNode_merge(_, _), mergePairs(_, _, _, _)
\* the first loop of trieNode.merge: for every child c of t (index i), for
\* every child c2 of o (index j), the merge of c and c2 when they are equal
mergePairs(tc, oc, i, j) ==
    IF i > Len(tc) THEN <<>>
    ELSE IF j > Len(oc) THEN mergePairs(tc, oc, i + 1, 1)
    ELSE (IF trieNode_equals(tc[i], oc[j])
          THEN <<trieNode_merge(tc[i], oc[j])>> ELSE <<>>)
         \o mergePairs(tc, oc, i, j + 1)

\* a merge that keeps the matches of t only
trieNode_merge_ownMatches(t, o) ==
    LET tc == t.children
        oc == o.children
        unmergedT == {i \in 1..Len(tc) : \A j \in 1..Len(oc) : ~trieNode_equals(tc[i], oc[j])}
        unmergedO == {j \in 1..Len(oc) : \A i \in 1..Len(tc) : ~trieNode_equals(tc[i], oc[j])}
    IN Node(t.level, t.char, t.patternMatcher,
            mergePairs(tc, oc, 1, 1) \o SelectIdx(tc, unmergedT, 1) \o SelectIdx(oc, unmergedO, 1),
            t.matches)

trieNode_merge(t, o) ==
    LET tc == t.children
        oc == o.children
        unmergedT == {i \in 1..Len(tc) : \A j \in 1..Len(oc) : ~trieNode_equals(tc[i], oc[j])}
        unmergedO == {j \in 1..Len(oc) : \A i \in 1..Len(tc) : ~trieNode_equals(tc[i], oc[j])}
    IN Node(t.level, t.char, t.patternMatcher,
            mergePairs(tc, oc, 1, 1) \o SelectIdx(tc, unmergedT, 1) \o SelectIdx(oc, unmergedO, 1),
            t.matches \o o.matches)

\* the character node t against the byte next() returned in n
matchChar(t, n) ==
    IF ~n.ok THEN [ok |-> FALSE, it |-> n.it]
    ELSE IF n.b # t.char THEN [ok |-> FALSE, it |-> pushBack(n.it)]
    ELSE [ok |-> TRUE, it |-> n.it]

\* a matchNode that does not compare the level of the node with the level
\* of the iterator
matchNode_noLevel(t, i) ==
    IF isRoot(t) THEN [ok |-> TRUE, it |-> i]
    ELSE IF isPatternMatcher(t) THEN patternMatcher_match(t.patternMatcher, i)
    ELSE matchChar(t, next(i))

\* trieNode.matchNode: whether the node accepts, and the iterator afterwards
matchNode(t, i) ==
    IF level(i) # t.level THEN [ok |-> FALSE, it |-> i]
    ELSE IF isRoot(t) THEN [ok |-> TRUE, it |-> i]
    ELSE IF isPatternMatcher(t) THEN patternMatcher_match(t.patternMatcher, i)
    ELSE matchChar(t, next(i))

RECURSIVE trieNode_match(_, _), matchChildren(_, _, _), matchChild(_, _, _, _), matchAfter(_, _)
\* a loop body that leaves the iterator where the failed child left it
matchChild_noRestore(t, k, p, r) ==
    IF r.m # NilMatch THEN r
    ELSE matchChildren(t, r.it, k + 1)

\* the body of the loop for child k, whose match returned r from position p
matchChild(t, k, p, r) ==
    IF r.m # NilMatch THEN r
    ELSE matchChildren(t, setPosition(r.it, p), k + 1)

\* a loop over the children that does not fall back to the result of the
\* node when the children fail
matchChildren_noFallback(t, i, k) ==
    IF k > Len(t.children) THEN [it |-> i, m |-> NilMatch]
    ELSE matchChild(t, k, position(i), trieNode_match(t.children[k], i))

\* the loop over t.children of trieNode.match, from child k on
matchChildren(t, i, k) ==
    IF k > Len(t.children)
    THEN IF Len(t.matches) # 0 /\ level(i) > t.level
         THEN [it |-> i, m |-> t.matches[1]]
         ELSE [it |-> i, m |-> NilMatch]
    ELSE matchChild(t, k, position(i), trieNode_match(t.children[k], i))

\* a match that returns the result of a node without asking whether the
\* input has ended
matchAfter_noEnd(t, mn) ==
    IF ~mn.ok THEN [it |-> mn.it, m |-> NilMatch]
    ELSE IF Len(t.matches) # 0 THEN [it |-> mn.it, m |-> t.matches[1]]
    ELSE matchChildren(t, mn.it, 1)

\* trieNode.match after matchNode returned mn
matchAfter(t, mn) ==
    IF ~mn.ok THEN [it |-> mn.it, m |-> NilMatch]
    ELSE IF Len(t.matches) # 0 /\ isEnd(mn.it) THEN [it |-> mn.it, m |-> t.matches[1]]
    ELSE matchChildren(t, mn.it, 1)

\* trieNode.match: the match (NilMatch for nil) and the iterator it leaves
trieNode_match(t, i) == matchAfter(t, matchNode(t, i))

----
(* Request mappers.  A request is [method, host, path, header] where path *)
(* is the raw path of the request URI and header maps a name to its value *)

Mapper(kind, header) == [seq |-> <<>>, kind |-> kind, header |-> header]

methodMapper == Mapper("method", <<>>)
pathMapper == Mapper("path", <<>>)
hostMapper == Mapper("host", <<>>)
headerMapper(name) == Mapper("header", name)

NilMapper == Mapper("nil", <<>>)

\* separator of the four simple mappers
simpleSeparator(m) ==
    IF m.kind = "method" THEN methodSep
    ELSE IF m.kind = "path" THEN pathSep
    ELSE IF m.kind = "host" THEN domainSep
    ELSE headerSep

separator(m) == IF m.kind = "seq" THEN simpleSeparator(m.seq[1]) ELSE simpleSeparator(m)

pathMapper_mapRequest(r) == IF Len(r.path) = 0 THEN <<47>> ELSE r.path

hostMapper_mapRequest(r) == Split(ToLower(r.host), 58)[1]

headerMapper_mapRequest(m, r) ==
    IF m.header \in DOMAIN r.header THEN r.header[m.header] ELSE <<>>

\* mapRequest of the four simple mappers
simpleMapRequest(m, r) ==
    IF m.kind = "method" THEN r.method
    ELSE IF m.kind = "path" THEN pathMapper_mapRequest(r)
    ELSE IF m.kind = "host" THEN hostMapper_mapRequest(r)
    ELSE headerMapper_mapRequest(m, r)

RECURSIVE Concat(_)
Concat(ss) == IF Len(ss) = 0 THEN <<>> ELSE Head(ss) \o Concat(Tail(ss))

mapRequest(m, r) ==
    IF m.kind = "seq"
    THEN Concat([k \in 1..Len(m.seq) |-> simpleMapRequest(m.seq[k], r)])
    ELSE simpleMapRequest(m, r)

mapper_newIter(m, r) ==
    IF m.kind = "seq"
    THEN newIter([k \in 1..Len(m.seq) |-> simpleMapRequest(m.seq[k], r)],
                 [k \in 1..Len(m.seq) |-> separator(m.seq[k])])
    ELSE newIter(<<simpleMapRequest(m, r)>>, <<separator(m)>>)

newSeqMapper(a, b) ==
    [seq |-> (IF a.kind = "seq" THEN a.seq ELSE <<a>>)
             \o (IF b.kind = "seq" THEN b.seq ELSE <<b>>),
     kind |-> "seq", header |-> <<>>]

\* requestMapper.equivalent: the merged mapper, NilMapper when not equivalent.
\* Simple mappers: same variant and same header name.  Sequence mappers:
\* element-wise equivalent up to the shorter one, yielding the longer one.
equivalent(m, o) ==
    IF m.kind = "seq"
    THEN IF o.kind # "seq" THEN NilMapper
         ELSE LET longer == IF Len(m.seq) > Len(o.seq) THEN m ELSE o
                  shorter == IF Len(m.seq) > Len(o.seq) THEN o ELSE m
              IN IF \A k \in 1..Len(shorter.seq) :
                        /\ longer.seq[k].kind = shorter.seq[k].kind
                        /\ longer.seq[k].header = shorter.seq[k].header
                 THEN longer ELSE NilMapper
    ELSE IF o.kind = m.kind /\ o.header = m.header THEN m ELSE NilMapper

----
(* Matchers: trie, regexp, and *)

ErrMatcher == [type |-> "error"]

Trie(root, mapper) == [type |-> "trie", root |-> root, mapper |-> mapper]

newTrieMatcher(expression, mapper, result) ==
    IF Len(expression) = 0 THEN ErrMatcher
    ELSE LET p == parseExpression(Node(0, 0, NoPM, <<>>, <<>>), -1, expression, result) IN
         IF p.err THEN ErrMatcher ELSE Trie(p.node, mapper)

\* regexp.Compile: the model holds literal expressions (no metacharacter);
\* an expression with an unclosed '[' does not compile
regexpCompiles(expr) == 91 \notin {expr[k] : k \in 1..Len(expr)}

newRegexpMatcher(expr, mapper, m) ==
    IF ~regexpCompiles(expr) THEN ErrMatcher
    ELSE [type |-> "regexp", mapper |-> mapper, result |-> m, expr |-> expr]

\* a hostTrieMatcher that keeps the case of the pattern
hostTrieMatcher_keepCase(hostname) == newTrieMatcher(hostname, hostMapper, BlankMatch)

hostTrieMatcher(hostname) == newTrieMatcher(ToLower(hostname), hostMapper, BlankMatch)
hostRegexpMatcher(hostname) == newRegexpMatcher(ToLower(hostname), hostMapper, BlankMatch)
methodTrieMatcher(method) == newTrieMatcher(method, methodMapper, BlankMatch)
methodRegexpMatcher(method) == newRegexpMatcher(method, methodMapper, BlankMatch)
pathTrieMatcher(path) == newTrieMatcher(path, pathMapper, BlankMatch)
pathRegexpMatcher(path) == newRegexpMatcher(path, pathMapper, BlankMatch)
headerTrieMatcher(name, value) == newTrieMatcher(value, headerMapper(name), BlankMatch)
headerRegexpMatcher(name, value) == newRegexpMatcher(value, headerMapper(name), BlankMatch)

canChain(a, o) == a.type = "trie" /\ o.type = "trie"

\* trie.chain: the match node of t loses its matches and gets the root of
\* the other trie as its only child, then the levels are recomputed
trie_chain(t, to) ==
    Trie(setLevel(updateMatchNode(t.root, TRUE, <<to.root>>, <<>>), -1),
         newSeqMapper(t.mapper, to.mapper))

newAndMatcher(a, b) ==
    IF canChain(a, b) THEN trie_chain(a, b)
    ELSE [a |-> a, b |-> b, type |-> "and"]

canMerge(t, m) ==
    /\ t.type = "trie"
    /\ m.type = "trie"
    /\ equivalent(t.mapper, m.mapper) # NilMapper

trie_merge(t, other) ==
    IF other.type # "trie" \/ t.type # "trie" THEN ErrMatcher
    ELSE LET mapper == equivalent(t.mapper, other.mapper) IN
         IF mapper = NilMapper THEN ErrMatcher
         ELSE Trie(trieNode_merge(t.root, other.root), mapper)

trie_match(t, r) == trieNode_match(t.root, mapper_newIter(t.mapper, r)).m

\* regexp.MatchString for a literal expression: unanchored containment
regexpMatcher_match(m, r) ==
    IF Contains(mapRequest(m.mapper, r), m.expr) THEN m.result ELSE NilMatch

RECURSIVE matcher_match(_, _)
matcher_match(m, r) ==
    IF m.type = "trie" THEN trie_match(m, r)
    ELSE IF m.type = "regexp" THEN regexpMatcher_match(m, r)
    ELSE IF matcher_match(m.a, r) = NilMatch THEN NilMatch
    ELSE matcher_match(m.b, r)

RECURSIVE setMatch(_, _)
setMatch(m, result) ==
    IF m.type = "trie" THEN [m EXCEPT !.root = trieNode_setMatch(m.root, result)]
    ELSE IF m.type = "regexp" THEN [m EXCEPT !.result = result]
    ELSE [m EXCEPT !.a = setMatch(m.a, result), !.b = setMatch(m.b, result)]

----
(* Predicate parser: expr := call ("&&" call)*,                           *)
(* call := IDENT "(" STRING ("," STRING)? ")"                             *)

FnPath == <<80, 97, 116, 104>>
FnMethod == <<77, 101, 116, 104, 111, 100>>
FnHost == <<72, 111, 115, 116>>
FnHeader == <<72, 101, 97, 100, 101, 114>>
SuffixRegexp == <<82, 101, 103, 101, 120, 112>>

IsLetter(c) == (c >= 65 /\ c <= 90) \/ (c >= 97 /\ c <= 122)

RECURSIVE skipSpaces(_, _)
skipSpaces(s, k) ==
    IF k <= Len(s) /\ s[k] = 32 THEN skipSpaces(s, k + 1) ELSE k

RECURSIVE identEnd(_, _)
identEnd(s, k) ==
    IF k <= Len(s) /\ IsLetter(s[k]) THEN identEnd(s, k + 1) ELSE k

\* a double-quoted string literal at k: its bytes and the index after it
parseString(s, k) ==
    IF k > Len(s) \/ s[k] # 34 THEN [k |-> k, err |-> TRUE, str |-> <<>>]
    ELSE LET q == IndexFrom(s, 34, k + 1) IN
         IF q = 0 THEN [k |-> k, err |-> TRUE, str |-> <<>>]
         ELSE [k |-> q + 1, err |-> FALSE, str |-> SubSeq(s, k + 1, q - 1)]

\* the matcher a recognised function builds from its string arguments
callMatcher(fn, args) ==
    IF Len(args) = 1 /\ fn = FnPath THEN pathTrieMatcher(args[1])
    ELSE IF Len(args) = 1 /\ fn = FnPath \o SuffixRegexp THEN pathRegexpMatcher(args[1])
    ELSE IF Len(args) = 1 /\ fn = FnMethod THEN methodTrieMatcher(args[1])
    ELSE IF Len(args) = 1 /\ fn = FnMethod \o SuffixRegexp THEN methodRegexpMatcher(args[1])
    ELSE IF Len(args) = 1 /\ fn = FnHost THEN hostTrieMatcher(args[1])
    ELSE IF Len(args) = 1 /\ fn = FnHost \o SuffixRegexp THEN hostRegexpMatcher(args[1])
    ELSE IF Len(args) = 2 /\ fn = FnHeader THEN headerTrieMatcher(args[1], args[2])
    ELSE IF Len(args) = 2 /\ fn = FnHeader \o SuffixRegexp THEN headerRegexpMatcher(args[1], args[2])
    ELSE ErrMatcher

\* a call that does not parse
badCall(k) == [k |-> k, m |-> ErrMatcher]

\* the closing parenthesis at k4 ends the call fn(args)
callClose(s, k, fn, args, bad, k4) ==
    IF bad \/ k4 > Len(s) \/ s[k4] # 41 THEN badCall(k)
    ELSE [k |-> k4 + 1, m |-> callMatcher(fn, args)]

\* the arguments a1 and, when two, a2 of the call
callArg2(s, k, fn, a1, two, a2) ==
    callClose(s, k, fn,
              IF two THEN <<a1.str, a2.str>> ELSE <<a1.str>>,
              a1.err \/ (two /\ a2.err),
              IF two THEN skipSpaces(s, a2.k) ELSE skipSpaces(s, a1.k))

\* after the first argument a1, at k3: a comma and a second argument, or the end
callArgs(s, k, fn, a1, k3) ==
    callArg2(s, k, fn, a1, k3 <= Len(s) /\ s[k3] = 44, parseString(s, skipSpaces(s, k3 + 1)))

callArg1(s, k, fn, a1) == callArgs(s, k, fn, a1, skipSpaces(s, a1.k))

\* the opening parenthesis at k2 after the identifier fn
callOpen(s, k, fn, k2) ==
    IF k2 > Len(s) \/ s[k2] # 40 THEN badCall(k)
    ELSE callArg1(s, k, fn, parseString(s, skipSpaces(s, k2 + 1)))

\* the identifier from k0 up to k1
callIdent(s, k, k0, k1) ==
    IF k1 = k0 THEN badCall(k)
    ELSE callOpen(s, k, SubSeq(s, k0, k1 - 1), skipSpaces(s, k1))

callStart(s, k, k0) == callIdent(s, k, k0, identEnd(s, k0))

\* one call at k: its matcher and the index after the closing parenthesis
parseCall(s, k) == callStart(s, k, skipSpaces(s, k))

RECURSIVE parseCalls(_, _, _, _), andAt(_, _, _), andCall(_, _, _, _)
\* the call c is the first one, or is joined to acc by newAndMatcher
andCall(s, first, acc, c) ==
    IF c.m = ErrMatcher THEN ErrMatcher
    ELSE andAt(s, skipSpaces(s, c.k), IF first THEN c.m ELSE newAndMatcher(acc, c.m))

\* at k0: the end of the expression, or "&&" and one more call
andAt(s, k0, acc) ==
    IF k0 > Len(s) THEN acc
    ELSE IF k0 + 1 > Len(s) \/ s[k0] # 38 \/ s[k0 + 1] # 38 THEN ErrMatcher
    ELSE parseCalls(s, k0 + 2, FALSE, acc)

\* the calls from k on; every call but the first is joined to acc
parseCalls(s, k, first, acc) == andCall(s, first, acc, parseCall(s, k))

parsePredicate(s) == parseCalls(s, 1, TRUE, ErrMatcher)

----
(* Inputs of the router operations *)

Match(expr, val) == [id |-> expr, val |-> val]

EmptyRoutes == [e \in {} |-> NilMatch]

MaxVal == 2

\* payloads; 0 stands for a nil payload
Vals == 1..MaxVal

Call1(fn, arg) == fn \o <<40, 34>> \o arg \o <<34, 41>>

AndExpr(a, b) == a \o <<32, 38, 38, 32>> \o b

\* Path("/a")
ExprA == Call1(FnPath, <<47, 97>>)
\* Path("/<x>/b")
ExprXB == Call1(FnPath, <<47, 60, 120, 62, 47, 98>>)
\* Path("/<x>")
ExprX == Call1(FnPath, <<47, 60, 120, 62>>)
\* PathRegexp("/b")
ExprReB == Call1(FnPath \o SuffixRegexp, <<47, 98>>)
\* bad
ExprBad == <<98, 97, 100>>

GoodExprs == {ExprA, ExprXB, ExprX, ExprReB}

Exprs == GoodExprs \cup {ExprBad}

NoHeader == [n \in {} |-> <<>>]

Req(method, host, path, header) ==
    [header |-> header, path |-> path, host |-> host, method |-> method]

\* requests of method "G" to host "h" for /a, /b, /a/b and /c/d
Requests ==
    {Req(<<71>>, <<104>>, p, NoHeader) :
        p \in {<<47, 97>>, <<47, 98>>, <<47, 97, 47, 98>>, <<47, 99, 47, 100>>}}

\* the maps handed to InitRoutes
InitInputs ==
    {EmptyRoutes}
    \cup {[e \in {ExprA} |-> v] : v \in Vals}
    \cup {[e \in {ExprX, ExprXB} |-> v] : v \in Vals}
    \cup {[e \in {ExprA, ExprBad} |-> 1]}

\* Path("/a<string:x>")
ExprAS == Call1(FnPath, <<47, 97, 60, 115, 116, 114, 105, 110, 103, 58, 120, 62>>)
\* Path("/<path:p>")
ExprP == Call1(FnPath, <<47, 60, 112, 97, 116, 104, 58, 112, 62>>)
\* Method("G")
ExprG == Call1(FnMethod, <<71>>)

\* the expressions whose tries are merged and chained pairwise
TrieExprs == {ExprA, ExprAS, ExprX, ExprP, ExprG}

\* requests of method "G" or "P" to host "h" for /a, /b and /a/b
TrieRequests ==
    {Req(m, <<104>>, p, NoHeader) :
        m \in {<<71>>, <<80>>},
        p \in {<<47, 97>>, <<47, 98>>, <<47, 97, 47, 98>>}}

\* the literal path patterns /, /r, /r/h and /q
LitPaths == {<<47>>, <<47, 114>>, <<47, 114, 47, 104>>, <<47, 113>>}

\* Path("p")
LitExpr(p) == Call1(FnPath, p)

LitExprs == {LitExpr(p) : p \in LitPaths}

\* requests for the literal paths, for the empty path and for /r/, /r/hq,
\* /rq and /x
LitRequests ==
    {Req(<<71>>, <<104>>, p, NoHeader) :
        p \in LitPaths \cup {<<>>, <<47, 114, 47>>, <<47, 114, 47, 104, 113>>,
                             <<47, 114, 113>>, <<47, 120>>}}

Call2(fn, a, b) == fn \o <<40, 34>> \o a \o <<34, 44, 32, 34>> \o b \o <<34, 41>>

\* Host("h"), Method("P"), Path("/r") and Header("c", "j")
ExprHostH == Call1(FnHost, <<104>>)
ExprMethP == Call1(FnMethod, <<80>>)
ExprPathR == LitExpr(<<47, 114>>)
ExprHdrCJ == Call2(FnHeader, <<99>>, <<106>>)

\* Host("h") && Method("P") && Path("/r")
ExprE == AndExpr(AndExpr(ExprHostH, ExprMethP), ExprPathR)
\* Host("h") && Method("P") && Path("/r") && Header("c", "j")
ExprEH == AndExpr(ExprE, ExprHdrCJ)

HdrExprs == {ExprE, ExprEH}

\* the header c absent and with the values "", j, jx and k
HdrHeaders ==
    {NoHeader} \cup {[n \in {<<99>>} |-> v] : v \in {<<>>, <<106>>, <<106, 120>>, <<107>>}}

\* requests of method P or G to host h or x for /r, /r/x or /
HdrRequests ==
    {Req(m, h, p, hd) :
        m \in {<<80>>, <<71>>}, h \in {<<104>>, <<120>>},
        p \in {<<47, 114>>, <<47, 114, 47, 120>>, <<47>>}, hd \in HdrHeaders}

\* Host("h") && Method("C") && Path("/r")
ExprHCR == AndExpr(AndExpr(ExprHostH, Call1(FnMethod, <<67>>)), ExprPathR)
\* Host("h") && Method("B")
ExprHB == AndExpr(ExprHostH, Call1(FnMethod, <<66>>))
\* Host("h") && Method("A") && Header("c", "j")
ExprHAH == AndExpr(AndExpr(ExprHostH, Call1(FnMethod, <<65>>)), ExprHdrCJ)
\* Path("/a") && PathRegexp("/b")
ExprAReB == AndExpr(ExprA, ExprReB)

\* the expressions whose compilation is examined: a regexp matcher, an
\* and-matcher, a trie over the path and three chained tries
CmpExprs == {ExprReB, ExprAReB, ExprA, ExprHCR, ExprHB, ExprHAH}

\* Path("/<string:x>")
ExprSX == Call1(FnPath, <<47, 60>> \o TypeString \o <<58, 120, 62>>)

\* routes whose tries share nodes (/a, /<x>, /<x>/b and /<string:x>, the
\* same trie as /<x>), chained tries, a regexp matcher and an and-matcher
AccExprs == {ExprA, ExprX, ExprXB, ExprSX, ExprHB, ExprHCR, ExprReB, ExprAReB}

\* Path("/q"), Path("/r") and Path("/x"), handled by the Mux
MuxExprs == {LitExpr(<<47, 113>>), LitExpr(<<47, 114>>), LitExpr(<<47, 120>>)}

\* the aliases Path("/q") -> Path("/r") and Path("/r") -> Path("/x")
MuxAliases ==
    {[match |-> LitExpr(<<47, 113>>), replace |-> LitExpr(<<47, 114>>)],
     [match |-> LitExpr(<<47, 114>>), replace |-> LitExpr(<<47, 120>>)]}

\* the longest alias list
MaxAliases == 2

\* requests for /q, /r and /x
MuxRequests ==
    {Req(<<71>>, <<104>>, p, NoHeader) : p \in {<<47, 113>>, <<47, 114>>, <<47, 120>>}}

\* the maps handed to InitHandlers: one handler, and two handlers
MuxInputs ==
    {[e \in {x} |-> v] : x \in MuxExprs, v \in Vals}
    \cup {[e \in {LitExpr(<<47, 113>>), LitExpr(<<47, 114>>)} |->
              IF e = LitExpr(<<47, 113>>) THEN 1 ELSE 2]}

\* every expression of the model
AllExprs ==
    Exprs \cup TrieExprs \cup LitExprs \cup HdrExprs
    \cup {ExprHostH, ExprMethP, ExprHdrCJ} \cup CmpExprs \cup MuxExprs \cup AccExprs

----
(* parse and the sort of compile, evaluated once per expression *)

\* the matcher of every expression of the model before setMatch
parsed == [e \in AllExprs |-> parsePredicate(e)]

\* parse(expression, result): the matcher of the expression, carrying result
withMatch(m, result) == IF m = ErrMatcher THEN ErrMatcher ELSE setMatch(m, result)

parse(expression, result) == withMatch(parsed[expression], result)

\* the expressions in reverse byte-wise order
RECURSIVE SortDown(_)
SortDown(S) ==
    IF S = {} THEN <<>>
    ELSE LET top == CHOOSE e \in S : \A f \in S \ {e} : StrLess(f, e)
         IN <<top>> \o SortDown(S \ {top})

sortedExprs == SortDown(AllExprs)

\* sort.Sort(sort.Reverse(sort.StringSlice(exprs))) of a set of expressions
SortReverse(S) == SelectSeq(sortedExprs, LAMBDA e : e \in S)

----
(* Route table *)

MapPut(m, k, v) == [x \in (DOMAIN m) \cup {k} |-> IF x = k THEN v ELSE m[x]]

MapDelete(m, k) == [x \in (DOMAIN m) \ {k} |-> m[x]]

RECURSIVE compileLoop(_, _, _, _), compileStep(_, _, _, _, _), compileMerged(_, _, _, _, _)
\* the previous matcher and the new one merged into mm replace the previous
compileMerged(rts, exprs, k, acc, mm) ==
    IF mm = ErrMatcher THEN [matchers |-> acc, err |-> TRUE]
    ELSE compileLoop(rts, exprs, k + 1, [acc EXCEPT ![Len(acc)] = mm])

\* an iteration that appends every matcher and never merges
compileStep_neverMerge(rts, exprs, k, acc, m) ==
    IF m = ErrMatcher THEN [matchers |-> acc, err |-> TRUE]
    ELSE compileLoop(rts, exprs, k + 1, Append(acc, m))

\* one iteration of the loop of compile on the matcher m of exprs[k]
compileStep(rts, exprs, k, acc, m) ==
    IF m = ErrMatcher THEN [matchers |-> acc, err |-> TRUE]
    ELSE IF Len(acc) > 0 /\ canMerge(acc[Len(acc)], m)
    THEN compileMerged(rts, exprs, k, acc, trie_merge(acc[Len(acc)], m))
    ELSE compileLoop(rts, exprs, k + 1, Append(acc, m))

\* the loop of router.compile over the sorted expressions, from index k on
compileLoop(rts, exprs, k, acc) ==
    IF k > Len(exprs) THEN [matchers |-> acc, err |-> FALSE]
    ELSE compileStep(rts, exprs, k, acc, parse(exprs[k], rts[exprs[k]]))

\* router.compile on a route map: the error flag and the new matcher list
compile(rts) == compileLoop(rts, SortReverse(DOMAIN rts), 1, <<>>)

\* a loop that keeps going after a match and so returns the last one
RECURSIVE routeLoop_last(_, _, _)
routeLoop_last(ms, r, k) ==
    IF k > Len(ms) THEN NilMatch
    ELSE LET l == matcher_match(ms[k], r)
             rest == routeLoop_last(ms, r, k + 1)
         IN IF rest # NilMatch THEN rest ELSE l

\* the loop of router.Route: the first non-nil match, NilMatch if none
RECURSIVE routeLoop(_, _, _)
routeLoop(ms, r, k) ==
    IF k > Len(ms) THEN NilMatch
    ELSE LET l == matcher_match(ms[k], r) IN
         IF l # NilMatch THEN l ELSE routeLoop(ms, r, k + 1)

\* router.Route on a matcher list: the match whose val is returned
routeMatch(ms, r) == IF Len(ms) = 0 THEN NilMatch ELSE routeLoop(ms, r, 1)

----
(* Router operations, each taken as a whole under the lock *)

Ret(op, expr, val, req, arg, err, out) ==
    [err |-> err, val |-> val, expr |-> expr, arg |-> arg, op |-> op,
     req |-> req, out |-> out]

NoReq == Req(<<>>, <<>>, <<>>, NoHeader)

TrieIdle == [r |-> NoReq, p1 |-> <<>>, p2 |-> <<>>]

NoOut == [op |-> "none"]

RouterIdle ==
    /\ aliases = <<>>
    /\ mutex = [r |-> {}, w |-> 0]
    /\ pc = <<>>
    /\ loc = <<>>

Init ==
    /\ routes = EmptyRoutes
    /\ matchers = <<>>
    /\ ret = Ret("New", <<>>, 0, NoReq, EmptyRoutes, FALSE, 0)
    /\ pin = TrieIdle
    /\ pout = NoOut
    /\ RouterIdle

\* the value GetRoute returns for expr on a route map, 0 for nil
getRoute(rts, expr) == IF expr \in DOMAIN rts THEN rts[expr].val ELSE 0

GetRoute(expr) ==
    /\ ret' = Ret("GetRoute", expr, 0, NoReq, EmptyRoutes, FALSE, getRoute(routes, expr))
    /\ UNCHANGED <<aliases, routes, matchers, pin, pout, mutex, pc, loc>>

\* the end of a mutation whose compile returned c: on an error the route map
\* is put back to reverted and the matcher list stays, else the new map stays
\* and the compiled list is published
compiledOr(c, rts1, reverted, ms) ==
    IF c.err THEN [routes |-> reverted, matchers |-> ms, err |-> TRUE]
    ELSE [routes |-> rts1, matchers |-> c.matchers, err |-> FALSE]

\* an AddRoute that stores the route before it validates the expression
addRoute_storeFirst(rts, ms, expr, val) ==
    IF expr \in DOMAIN rts THEN [routes |-> rts, matchers |-> ms, err |-> TRUE]
    ELSE IF parse(expr, Match(expr, val)) = ErrMatcher
    THEN [routes |-> MapPut(rts, expr, Match(expr, val)), matchers |-> ms, err |-> TRUE]
    ELSE compiledOr(compile(MapPut(rts, expr, Match(expr, val))),
                    MapPut(rts, expr, Match(expr, val)), rts, ms)

\* an AddRoute without the check for an expression that is already present
addRoute_noDupCheck(rts, ms, expr, val) ==
    IF parse(expr, Match(expr, val)) = ErrMatcher
    THEN [routes |-> rts, matchers |-> ms, err |-> TRUE]
    ELSE compiledOr(compile(MapPut(rts, expr, Match(expr, val))),
                    MapPut(rts, expr, Match(expr, val)), rts, ms)

\* the state of the router after AddRoute(expr, val) and whether it failed
addRoute(rts, ms, expr, val) ==
    IF expr \in DOMAIN rts THEN [routes |-> rts, matchers |-> ms, err |-> TRUE]
    ELSE IF parse(expr, Match(expr, val)) = ErrMatcher
    THEN [routes |-> rts, matchers |-> ms, err |-> TRUE]
    ELSE compiledOr(compile(MapPut(rts, expr, Match(expr, val))),
                    MapPut(rts, expr, Match(expr, val)), rts, ms)

AddRoute(expr, val) ==
    LET n == addRoute(routes, matchers, expr, val) IN
    /\ routes' = n.routes
    /\ matchers' = n.matchers
    /\ ret' = Ret("AddRoute", expr, val, NoReq, EmptyRoutes, n.err, 0)
    /\ UNCHANGED <<aliases, pin, pout, mutex, pc, loc>>

\* an UpsertRoute that leaves an expression that is already present as it is
upsertRoute_keepOld(rts, ms, expr, val) ==
    IF parse(expr, Match(expr, val)) = ErrMatcher
    THEN [routes |-> rts, matchers |-> ms, err |-> TRUE]
    ELSE IF expr \in DOMAIN rts THEN [routes |-> rts, matchers |-> ms, err |-> FALSE]
    ELSE compiledOr(compile(MapPut(rts, expr, Match(expr, val))),
                    MapPut(rts, expr, Match(expr, val)), rts, ms)

\* the state of the router after UpsertRoute(expr, val) and whether it failed
upsertRoute(rts, ms, expr, val) ==
    IF parse(expr, Match(expr, val)) = ErrMatcher
    THEN [routes |-> rts, matchers |-> ms, err |-> TRUE]
    ELSE compiledOr(compile(MapPut(rts, expr, Match(expr, val))),
                    MapPut(rts, expr, Match(expr, val)),
                    IF expr \in DOMAIN rts
                    THEN MapPut(MapPut(rts, expr, Match(expr, val)), expr, rts[expr])
                    ELSE MapDelete(MapPut(rts, expr, Match(expr, val)), expr),
                    ms)

UpsertRoute(expr, val) ==
    LET n == upsertRoute(routes, matchers, expr, val) IN
    /\ routes' = n.routes
    /\ matchers' = n.matchers
    /\ ret' = Ret("UpsertRoute", expr, val, NoReq, EmptyRoutes, n.err, 0)
    /\ UNCHANGED <<aliases, pin, pout, mutex, pc, loc>>

\* a RemoveRoute that deletes the route and keeps the compiled list
removeRoute_keepCompiled(rts, ms, expr) ==
    [routes |-> MapDelete(rts, expr), matchers |-> ms, err |-> FALSE]

\* the state of the router after RemoveRoute(expr) and whether it failed
removeRoute(rts, ms, expr) ==
    compiledOr(compile(MapDelete(rts, expr)), MapDelete(rts, expr), MapDelete(rts, expr), ms)

RemoveRoute(expr) ==
    LET n == removeRoute(routes, matchers, expr) IN
    /\ routes' = n.routes
    /\ matchers' = n.matchers
    /\ ret' = Ret("RemoveRoute", expr, 0, NoReq, EmptyRoutes, n.err, 0)
    /\ UNCHANGED <<aliases, pin, pout, mutex, pc, loc>>

\* the route map InitRoutes builds from its input when every expression parses
newRoutes(input) == [e \in DOMAIN input |-> Match(e, input[e])]

\* the expressions of the input that parse
parsable(input) == {e \in DOMAIN input : parse(e, Match(e, input[e])) # ErrMatcher}

\* the states InitRoutes(input) can leave the router in.  The map is ranged
\* over in an unspecified order and the loop returns at the first expression
\* that fails to parse, so any set of the parsable ones may have been stored.
initRoutes(rts, ms, input) ==
    IF parsable(input) # DOMAIN input
    THEN {[routes |-> [e \in S |-> Match(e, input[e])], matchers |-> ms, err |-> TRUE] :
             S \in SUBSET parsable(input)}
    ELSE {compiledOr(compile(newRoutes(input)), newRoutes(input), newRoutes(input), ms)}

InitRoutes(input) ==
    \E n \in initRoutes(routes, matchers, input) :
        /\ routes' = n.routes
        /\ matchers' = n.matchers
        /\ ret' = Ret("InitRoutes", <<>>, 0, NoReq, input, n.err, 0)
        /\ UNCHANGED <<aliases, pin, pout, mutex, pc, loc>>

Route(req) ==
    /\ ret' = Ret("Route", <<>>, 0, req, EmptyRoutes, FALSE, routeMatch(matchers, req).val)
    /\ UNCHANGED <<aliases, routes, matchers, pin, pout, mutex, pc, loc>>

Next ==
    \/ \E e \in Exprs : GetRoute(e)
    \/ \E e \in Exprs, v \in Vals : AddRoute(e, v)
    \/ \E e \in Exprs, v \in Vals : UpsertRoute(e, v)
    \/ \E e \in Exprs : RemoveRoute(e)
    \/ \E input \in InitInputs : InitRoutes(input)
    \/ \E r \in Requests : Route(r)

Spec == Init /\ [][Next]_vars

\* the router under calls that all return nil
NextOk ==
    \/ \E e \in Exprs, v \in Vals : AddRoute(e, v) /\ ~ret'.err
    \/ \E e \in Exprs, v \in Vals : UpsertRoute(e, v) /\ ~ret'.err
    \/ \E e \in Exprs : RemoveRoute(e) /\ ~ret'.err
    \/ \E input \in InitInputs : InitRoutes(input) /\ ~ret'.err
    \/ \E r \in Requests : Route(r)

SpecOk == Init /\ [][NextOk]_vars

----
(* Mux: the router behind string substitution of the expressions and a    *)
(* not-found handler                                                      *)

StatusNotFound == 404

\* whether old is a prefix of s
HasPrefix(s, old) == Len(old) <= Len(s) /\ SubSeq(s, 1, Len(old)) = old

\* strings.Replace(s, old, new, -1) for a non-empty old
RECURSIVE ReplaceAll(_, _, _)
ReplaceAll(s, old, new) ==
    IF Len(s) < Len(old) THEN s
    ELSE IF HasPrefix(s, old)
    THEN new \o ReplaceAll(SubSeq(s, Len(old) + 1, Len(s)), old, new)
    ELSE <<Head(s)>> \o ReplaceAll(Tail(s), old, new)

\* the loop of Mux.applyAliases from alias k on
RECURSIVE applyAliasesFrom(_, _, _)
applyAliasesFrom(als, expr, k) ==
    IF k > Len(als) THEN expr
    ELSE applyAliasesFrom(als, ReplaceAll(expr, als[k].match, als[k].replace), k + 1)

applyAliases(als, expr) == applyAliasesFrom(als, expr, 1)

AddAlias(a) ==
    /\ Len(aliases) < MaxAliases
    /\ aliases' = Append(aliases, a)
    /\ ret' = Ret("AddAlias", a.match, 0, NoReq, EmptyRoutes, FALSE, 0)
    /\ UNCHANGED <<routes, matchers, pin, pout, mutex, pc, loc>>

\* Mux.Handle: the router after the call and whether it failed
handle(als, rts, ms, expr, handler) == upsertRoute(rts, ms, applyAliases(als, expr), handler)

Handle(expr, handler) ==
    LET n == handle(aliases, routes, matchers, expr, handler) IN
    /\ routes' = n.routes
    /\ matchers' = n.matchers
    /\ ret' = Ret("Handle", expr, handler, NoReq, EmptyRoutes, n.err, 0)
    /\ UNCHANGED <<aliases, pin, pout, mutex, pc, loc>>

\* Mux.HandleFunc: applies the aliases and calls Handle
handleFunc(als, rts, ms, expr, handler) ==
    handle(als, rts, ms, applyAliases(als, expr), handler)

HandleFunc(expr, handler) ==
    LET n == handleFunc(aliases, routes, matchers, expr, handler) IN
    /\ routes' = n.routes
    /\ matchers' = n.matchers
    /\ ret' = Ret("HandleFunc", expr, handler, NoReq, EmptyRoutes, n.err, 0)
    /\ UNCHANGED <<aliases, pin, pout, mutex, pc, loc>>

\* the maps the loop of InitHandlers can build: when two expressions become
\* the same one, the handler of the one ranged over last stays
modifiedMaps(als, handlers) ==
    {m \in [{applyAliases(als, k) : k \in DOMAIN handlers} -> Vals] :
        \A k2 \in DOMAIN m :
            \E k \in DOMAIN handlers : applyAliases(als, k) = k2 /\ handlers[k] = m[k2]}

\* Mux.InitHandlers: the states it can leave the router in
initHandlers(als, rts, ms, handlers) ==
    IF Len(als) = 0 THEN initRoutes(rts, ms, handlers)
    ELSE UNION {initRoutes(rts, ms, m) : m \in modifiedMaps(als, handlers)}

InitHandlers(handlers) ==
    \E n \in initHandlers(aliases, routes, matchers, handlers) :
        /\ routes' = n.routes
        /\ matchers' = n.matchers
        /\ ret' = Ret("InitHandlers", <<>>, 0, NoReq, handlers, n.err, 0)
        /\ UNCHANGED <<aliases, pin, pout, mutex, pc, loc>>

\* Mux.Remove: the router after the call and whether it failed
remove(als, rts, ms, expr) == removeRoute(rts, ms, applyAliases(als, expr))

Remove(expr) ==
    LET n == remove(aliases, routes, matchers, expr) IN
    /\ routes' = n.routes
    /\ matchers' = n.matchers
    /\ ret' = Ret("Remove", expr, 0, NoReq, EmptyRoutes, n.err, 0)
    /\ UNCHANGED <<aliases, pin, pout, mutex, pc, loc>>

\* Mux.ServeHTTP: the handler that serves the request, or the not-found one
serveHTTP(ms, req) ==
    IF routeMatch(ms, req) = NilMatch THEN StatusNotFound ELSE routeMatch(ms, req).val

ServeHTTP(req) ==
    /\ ret' = Ret("ServeHTTP", <<>>, 0, req, EmptyRoutes, FALSE, serveHTTP(matchers, req))
    /\ UNCHANGED <<aliases, routes, matchers, pin, pout, mutex, pc, loc>>

NextMux ==
    \/ \E a \in MuxAliases : AddAlias(a)
    \/ \E e \in MuxExprs, v \in Vals : Handle(e, v)
    \/ \E e \in MuxExprs, v \in Vals : HandleFunc(e, v)
    \/ \E input \in MuxInputs : InitHandlers(input)
    \/ \E e \in MuxExprs : Remove(e)
    \/ \E r \in MuxRequests : ServeHTTP(r)

SpecMux == Init /\ [][NextMux]_vars

----
(* The router holding Path routes with literal patterns *)

NextLit ==
    \/ \E e \in LitExprs, v \in Vals : AddRoute(e, v)
    \/ \E e \in LitExprs : RemoveRoute(e)
    \/ \E r \in LitRequests : Route(r)

SpecLit == Init /\ [][NextLit]_vars

----
(* The router holding a chain of literals with and without a header *)

NextHdr ==
    \/ \E e \in HdrExprs, v \in Vals : AddRoute(e, v)
    \/ \E e \in HdrExprs : RemoveRoute(e)
    \/ \E r \in HdrRequests : Route(r)

SpecHdr == Init /\ [][NextHdr]_vars

----
(* The router holding tries over several mappers, a regexp matcher and an *)
(* and-matcher                                                             *)

NextCmp ==
    \/ \E e \in CmpExprs : AddRoute(e, 1)
    \/ \E e \in CmpExprs : RemoveRoute(e)

SpecCmp == Init /\ [][NextCmp]_vars

----
(* The router holding routes whose tries are merged node by node *)

NextAcc ==
    \/ \E e \in AccExprs : AddRoute(e, 1)
    \/ \E e \in AccExprs : RemoveRoute(e)

SpecAcc == Init /\ [][NextAcc]_vars

----
(* The pattern matchers on an iterator.  The iterator runs over one string *)
(* with the separator '/' or over two strings with the separators '/' and  *)
(* '.', and is advanced byte by byte before a matcher is applied           *)

MaxLen == 2

\* the bytes '4', '/', 'a' and '.'
PMBytes == {52, 47, 97, 46}

\* the strings of at most MaxLen bytes
PMStrings == UNION {[1..k -> PMBytes] : k \in 0..MaxLen}

PMIters ==
    {newIter(<<s>>, <<pathSep>>) : s \in PMStrings}
    \cup {newIter(<<s1, s2>>, <<pathSep, domainSep>>) : s1 \in PMStrings, s2 \in PMStrings}

InitPM ==
    /\ routes = EmptyRoutes
    /\ matchers = <<>>
    /\ ret = Ret("New", <<>>, 0, NoReq, EmptyRoutes, FALSE, 0)
    /\ pin \in PMIters
    /\ pout = NoOut
    /\ RouterIdle

\* a character node consumes the next byte
Advance ==
    /\ next(pin).ok
    /\ pin' = next(pin).it
    /\ pout' = NoOut
    /\ UNCHANGED <<aliases, routes, matchers, ret, mutex, pc, loc>>

\* the result of a pattern matcher of the given kind on the iterator pin
Matched(kind) ==
    [ok |-> patternMatcher_match([kind |-> kind, name |-> <<120>>], pin).ok,
     it |-> patternMatcher_match([kind |-> kind, name |-> <<120>>], pin).it,
     op |-> kind]

DoInt ==
    /\ pout' = Matched("int")
    /\ UNCHANGED <<aliases, routes, matchers, ret, pin, mutex, pc, loc>>

DoString ==
    /\ pout' = Matched("string")
    /\ UNCHANGED <<aliases, routes, matchers, ret, pin, mutex, pc, loc>>

DoPath ==
    /\ pout' = Matched("path")
    /\ UNCHANGED <<aliases, routes, matchers, ret, pin, mutex, pc, loc>>

\* the loop of TestUnwind: next() until it returns ok = false; the iterator
\* it ends on and the bytes it got, each with its separator
RECURSIVE unwind(_, _)
unwind(c, out) ==
    IF next(c).ok THEN unwind(next(c).it, Append(out, <<next(c).b, next(c).sep>>))
    ELSE [it |-> next(c).it, out |-> out]

\* the loop, then one more next()
DoUnwind ==
    /\ pout.op = "none"
    /\ pout' = [ok |-> next(unwind(pin, <<>>).it).ok,
                it |-> next(unwind(pin, <<>>).it).it,
                op |-> "unwind",
                out |-> unwind(pin, <<>>).out]
    /\ UNCHANGED <<aliases, routes, matchers, ret, pin, mutex, pc, loc>>

\* the iterator after n calls of next()
RECURSIVE nextN(_, _)
nextN(c, n) == IF n = 0 THEN c ELSE nextN(next(c).it, n - 1)

\* whether n calls of next() all return ok = true
RECURSIVE nextOkN(_, _)
nextOkN(c, n) == n = 0 \/ (next(c).ok /\ nextOkN(next(c).it, n - 1))

\* n calls of next() that return ok = true, then n calls of pushBack()
DoPushBack(n) ==
    /\ pout.op = "none"
    /\ nextOkN(pin, n)
    /\ pout' = [ok |-> TRUE, it |-> pushBackN(nextN(pin, n), n), op |-> "pushBack", out |-> n]
    /\ UNCHANGED <<aliases, routes, matchers, ret, pin, mutex, pc, loc>>

NextPM ==
    \/ Advance
    \/ DoInt
    \/ DoString
    \/ DoPath
    \/ DoUnwind
    \/ \E n \in 1..(2 * MaxLen) : DoPushBack(n)

SpecPM == InitPM /\ [][NextPM]_vars

----
(* Host matchers with literal patterns on requests whose host is in mixed  *)
(* case and may carry a port                                                *)

\* the longest host pattern and the longest host name of a request
MaxHost == 2

\* H, h and the dot
HostBytes == {72, 104, 46}

HostPatterns == UNION {[1..k -> HostBytes] : k \in 1..MaxHost}

\* no port, and the port :8
HostPorts == {<<>>, <<58, 56>>}

HostRequests ==
    {Req(<<71>>, n \o p, <<47>>, NoHeader) :
        n \in UNION {[1..k -> HostBytes] : k \in 0..MaxHost}, p \in HostPorts}

InitHost ==
    /\ routes = EmptyRoutes
    /\ matchers = <<>>
    /\ ret = Ret("New", <<>>, 0, NoReq, EmptyRoutes, FALSE, 0)
    /\ pin \in [r : HostRequests, p1 : HostPatterns, p2 : {<<>>}]
    /\ pout = NoOut
    /\ RouterIdle

\* hostTrieMatcher(pattern), then match on the request
DoHost ==
    /\ pout' = [m |-> matcher_match(hostTrieMatcher(pin.p1), pin.r), op |-> "host"]
    /\ UNCHANGED <<aliases, routes, matchers, ret, pin, mutex, pc, loc>>

NextHost == DoHost

SpecHost == InitHost /\ [][NextHost]_vars

----
(* Merge and chain of two tries, each parsed from one expression *)

\* the results the first and the second trie are parsed with
Result1 == [id |-> <<1>>, val |-> 1]
Result2 == [id |-> <<2>>, val |-> 2]

InitTrie ==
    /\ routes = EmptyRoutes
    /\ matchers = <<>>
    /\ ret = Ret("New", <<>>, 0, NoReq, EmptyRoutes, FALSE, 0)
    /\ pin \in [r : TrieRequests, p1 : TrieExprs, p2 : TrieExprs]
    /\ pout = NoOut
    /\ RouterIdle

\* t1.merge(t2) as compile calls it, then match on the request
DoMerge ==
    LET t1 == parse(pin.p1, Result1)
        t2 == parse(pin.p2, Result2)
    IN /\ canMerge(t1, t2)
       /\ pout' = [m |-> matcher_match(trie_merge(t1, t2), pin.r), op |-> "merge"]
       /\ UNCHANGED <<aliases, routes, matchers, ret, pin, mutex, pc, loc>>

\* a.chain(b) as the parser builds it for a && b, then match on the request
DoChain ==
    LET a == parsed[pin.p1]
        b == parsed[pin.p2]
    IN /\ canChain(a, b)
       /\ pout' = [m |-> matcher_match(setMatch(newAndMatcher(a, b), Result1), pin.r),
                   op |-> "chain"]
       /\ UNCHANGED <<aliases, routes, matchers, ret, pin, mutex, pc, loc>>

NextTrie == DoMerge \/ DoChain

SpecTrie == InitTrie /\ [][NextTrie]_vars

----
(* Chained tries whose parts are all literal: Host(p1) && Method(p2), and   *)
(* Host(p1) && Method(p2) && Path(p3)                                       *)

\* h and 1
DimBytes == {104, 49}

\* the literals of the host
DimLits == UNION {[1..k -> DimBytes] : k \in 1..MaxLen}

\* the literals of the method: one byte
DimMethods == {<<b>> : b \in DimBytes}

\* no path part, Path("/") and Path("/1")
DimPaths == {<<>>, <<47>>, <<47, 49>>}

\* requests whose host and method are strings of h and 1, for / and /1
DimRequests ==
    {Req(m, h, p, NoHeader) :
        m \in UNION {[1..k -> DimBytes] : k \in 0..MaxLen},
        h \in UNION {[1..k -> DimBytes] : k \in 0..MaxLen},
        p \in {<<47>>, <<47, 49>>}}

InitDim ==
    /\ routes = EmptyRoutes
    /\ matchers = <<>>
    /\ ret = Ret("New", <<>>, 0, NoReq, EmptyRoutes, FALSE, 0)
    /\ pin \in [r : DimRequests, p1 : DimLits, p2 : DimMethods, p3 : DimPaths]
    /\ pout = NoOut
    /\ RouterIdle

\* the matcher of Host(p1) && Method(p2), chained with Path(p3) when p3 is given
dimMatcher(p1, p2, p3) ==
    IF p3 = <<>>
    THEN newAndMatcher(hostTrieMatcher(p1), methodTrieMatcher(p2))
    ELSE newAndMatcher(newAndMatcher(hostTrieMatcher(p1), methodTrieMatcher(p2)),
                       pathTrieMatcher(p3))

\* the chained trie with its result set, then match on the request
DoDims ==
    /\ pout' = [m |-> matcher_match(setMatch(dimMatcher(pin.p1, pin.p2, pin.p3), Result1),
                                   pin.r),
                op |-> "dims"]
    /\ UNCHANGED <<aliases, routes, matchers, ret, pin, mutex, pc, loc>>

NextDim == DoDims

SpecDim == InitDim /\ [][NextDim]_vars

----
(* Chains of two and of three freshly parsed tries, in both association    *)
(* orders                                                                   *)

\* the patterns a, ab, <x>, a<int:x> and <path:p>
LvlPatterns ==
    {<<97>>, <<97, 98>>, <<60, 120, 62>>,
     <<97, 60, 105, 110, 116, 58, 120, 62>>,
     <<60, 112, 97, 116, 104, 58, 112, 62>>}

InitLvl ==
    /\ routes = EmptyRoutes
    /\ matchers = <<>>
    /\ ret = Ret("New", <<>>, 0, NoReq, EmptyRoutes, FALSE, 0)
    /\ pin \in [r : {NoReq}, p1 : LvlPatterns, p2 : LvlPatterns, p3 : LvlPatterns \cup {<<>>}]
    /\ pout = NoOut
    /\ RouterIdle

\* the tries of the patterns of pin, over the host, the method and the path
lvlTries ==
    IF pin.p3 = <<>>
    THEN <<hostTrieMatcher(pin.p1), methodTrieMatcher(pin.p2)>>
    ELSE <<hostTrieMatcher(pin.p1), methodTrieMatcher(pin.p2), pathTrieMatcher(pin.p3)>>

\* a.chain(b), and (a.chain(b)).chain(c)
DoChainLeft ==
    /\ pout' = [m |-> IF Len(lvlTries) = 2 THEN trie_chain(lvlTries[1], lvlTries[2])
                      ELSE trie_chain(trie_chain(lvlTries[1], lvlTries[2]), lvlTries[3]),
                op |-> "chainLeft"]
    /\ UNCHANGED <<aliases, routes, matchers, ret, pin, mutex, pc, loc>>

\* a.chain(b.chain(c))
DoChainRight ==
    /\ Len(lvlTries) = 3
    /\ pout' = [m |-> trie_chain(lvlTries[1], trie_chain(lvlTries[2], lvlTries[3])),
                op |-> "chainRight"]
    /\ UNCHANGED <<aliases, routes, matchers, ret, pin, mutex, pc, loc>>

NextLvl == DoChainLeft \/ DoChainRight

SpecLvl == InitLvl /\ [][NextLvl]_vars

----
(* trieNode.equals on two nodes *)

\* the highest level of a node
MaxLevel == 1

\* <string:x>, <string:y> and <int:x>
EqMatchers ==
    {[kind |-> "string", name |-> <<120>>], [kind |-> "string", name |-> <<121>>],
     [kind |-> "int", name |-> <<120>>]}

\* a root, the character nodes a and b and the pattern nodes, on every level
EqNodes ==
    {Node(l, c, NoPM, <<>>, <<>>) : l \in 0..MaxLevel, c \in {0, 97, 98}}
    \cup {Node(l, 0, pm, <<>>, <<>>) : l \in 0..MaxLevel, pm \in EqMatchers}

InitEq ==
    /\ routes = EmptyRoutes
    /\ matchers = <<>>
    /\ ret = Ret("New", <<>>, 0, NoReq, EmptyRoutes, FALSE, 0)
    /\ pin \in [r : {NoReq}, p1 : EqNodes, p2 : EqNodes]
    /\ pout = NoOut
    /\ RouterIdle

DoEquals ==
    /\ pout' = [ok |-> trieNode_equals(pin.p1, pin.p2), op |-> "equals"]
    /\ UNCHANGED <<aliases, routes, matchers, ret, pin, mutex, pc, loc>>

NextEq == DoEquals

SpecEq == InitEq /\ [][NextEq]_vars

----
(* The loops of the pattern matchers and the walk of trieNode.match, one    *)
(* iteration and one call at a time                                         *)

\* the calls of next() a loop may make before it is cut off: one more than
\* any input of the model needs
MaxCalls == 2 * MaxLen + 2

\* the path patterns /a, /a<string:x>, /<x>, /<path:p> and /<int:x>/b
WalkPatterns ==
    {<<47, 97>>,
     <<47, 97, 60, 115, 116, 114, 105, 110, 103, 58, 120, 62>>,
     <<47, 60, 120, 62>>,
     <<47, 60, 112, 97, 116, 104, 58, 112, 62>>,
     <<47, 60, 105, 110, 116, 58, 120, 62, 47, 98>>}

\* the trie that is walked: the tries of two path patterns, merged
walkTrie(p1, p2) ==
    trie_merge(setMatch(pathTrieMatcher(p1), Result1),
               setMatch(pathTrieMatcher(p2), Result2))

\* the inputs of the walks: a request and the merged trie of two patterns
WalkInputs ==
    {[r |-> r, p1 |-> p1, p2 |-> p2, trie |-> walkTrie(p1, p2)] :
        r \in TrieRequests, p1 \in WalkPatterns, p2 \in WalkPatterns}

InitLoop ==
    /\ routes = EmptyRoutes
    /\ matchers = <<>>
    /\ ret = Ret("New", <<>>, 0, NoReq, EmptyRoutes, FALSE, 0)
    /\ pin \in PMIters \cup WalkInputs
    /\ pout = NoOut
    /\ RouterIdle

\* a pattern matcher is called on the iterator
StartLoop(kind) ==
    /\ pout.op = "none"
    /\ "seq" \in DOMAIN pin
    /\ pout' = [ok |-> FALSE, it |-> pin, count |-> 0, op |-> kind, done |-> FALSE]
    /\ UNCHANGED <<aliases, routes, matchers, ret, pin, mutex, pc, loc>>

\* an iteration of the loop of pathMatcher.grabValue that reads the next byte
\* without consuming it
pathStep_spin(it, count) ==
    [ok |-> TRUE, it |-> it, count |-> count + 1, done |-> ~next(it).ok]

\* one iteration of the loop of pathMatcher.grabValue, the count-th
pathStep(it, count) ==
    [ok |-> TRUE, it |-> next(it).it, count |-> count + 1, done |-> ~next(it).ok]

\* one iteration of the loop of stringMatcher.grabValue
stringStep(it, count) ==
    [ok |-> TRUE,
     it |-> IF next(it).ok /\ next(it).b = next(it).sep
            THEN pushBack(next(it).it) ELSE next(it).it,
     count |-> count + 1,
     done |-> ~next(it).ok \/ next(it).b = next(it).sep]

\* one iteration of the loop of intMatcher.match
intStep(it, count) ==
    [ok |-> IsDigit(next(it).b) \/ next(it).b = next(it).sep,
     it |-> IF IsDigit(next(it).b) THEN next(it).it
            ELSE IF next(it).b = next(it).sep THEN pushBack(next(it).it)
            ELSE pushBackN(next(it).it, count + 1),
     count |-> count + 1,
     done |-> ~IsDigit(next(it).b) \/ ~next(it).ok]

patternStep(kind, it, count) ==
    IF kind = "string" THEN stringStep(it, count)
    ELSE IF kind = "path" THEN pathStep(it, count)
    ELSE intStep(it, count)

\* one iteration of the loop of the matcher that was called
StepLoop(kind) ==
    /\ pout.op = kind /\ ~pout.done /\ pout.count < MaxCalls
    /\ pout' = [ok |-> patternStep(kind, pout.it, pout.count).ok,
                it |-> patternStep(kind, pout.it, pout.count).it,
                count |-> pout.count + 1,
                op |-> kind,
                done |-> patternStep(kind, pout.it, pout.count).done]
    /\ UNCHANGED <<aliases, routes, matchers, ret, pin, mutex, pc, loc>>

StepPath == StepLoop("path")

StepString == StepLoop("string")

StepInt == StepLoop("int")

\* the number of nodes of the trie under t, t included
RECURSIVE nodeCount(_)
nodeCount(t) ==
    IF Len(t.children) = 0 THEN 1
    ELSE 1 + nodeCount(t.children[1])
           + nodeCount([t EXCEPT !.children = Tail(t.children)]) - 1

\* the state of a walk: the node whose match is running (mode "call" before
\* matchNode, "match" in the loop of its pattern matcher, after n calls of
\* next()), the frames of the calls whose loop over the children is running
\* (mode "loop"), each with the index of the child being tried and the
\* position recorded before it, the iterator, the value being returned
\* (mode "ret"), and the calls of match (count) and the steps made so far
Walk(mode, node, stack, it, m, count, n, steps) ==
    [it |-> it, n |-> n, count |-> count, node |-> node, m |-> m, op |-> "walk",
     done |-> FALSE, mode |-> mode, stack |-> stack, steps |-> steps]

\* trie.match calls t.root.match on the iterator of the request
StartWalk ==
    /\ pout.op = "none"
    /\ "trie" \in DOMAIN pin
    /\ pout' = Walk("call", pin.trie.root, <<>>, mapper_newIter(pin.trie.mapper, pin.r),
                    NilMatch, 0, 0, 0)
    /\ UNCHANGED <<aliases, routes, matchers, ret, pin, mutex, pc, loc>>

\* the walk after matchNode of node t returned ok with the iterator it: match
\* returns nil, returns the result of the node, or enters the loop
walkCalled(w, t, ok, it) ==
    IF ~ok THEN Walk("ret", t, w.stack, it, NilMatch, w.count + 1, 0, w.steps + 1)
    ELSE IF Len(t.matches) # 0 /\ isEnd(it)
    THEN Walk("ret", t, w.stack, it, t.matches[1], w.count + 1, 0, w.steps + 1)
    ELSE Walk("loop", t, Append(w.stack, [k |-> 1, p |-> position(it), t |-> t]),
              it, NilMatch, w.count + 1, 0, w.steps + 1)

\* a call of trieNode.match: matchNode on the level, the root or the byte of
\* a character node, or the entry into the loop of the pattern matcher
WalkCall ==
    /\ pout.op = "walk" /\ pout.mode = "call" /\ ~pout.done
    /\ pout.count <= nodeCount(pin.trie.root)
    /\ pout' = IF level(pout.it) = pout.node.level /\ isPatternMatcher(pout.node)
               THEN Walk("match", pout.node, pout.stack, pout.it, NilMatch,
                         pout.count, 0, pout.steps + 1)
               ELSE walkCalled(pout, pout.node, matchNode(pout.node, pout.it).ok,
                               matchNode(pout.node, pout.it).it)
    /\ UNCHANGED <<aliases, routes, matchers, ret, pin, mutex, pc, loc>>

\* the walk after one iteration s of the loop of the pattern matcher
walkMatched(w, s) ==
    IF s.done THEN walkCalled(w, w.node, s.ok, s.it)
    ELSE Walk("match", w.node, w.stack, s.it, NilMatch, w.count, s.count, w.steps + 1)

\* one iteration of the loop of the pattern matcher of the node
WalkMatch ==
    /\ pout.op = "walk" /\ pout.mode = "match" /\ ~pout.done
    /\ pout.n < MaxCalls
    /\ pout' = walkMatched(pout, patternStep(pout.node.patternMatcher.kind, pout.it, pout.n))
    /\ UNCHANGED <<aliases, routes, matchers, ret, pin, mutex, pc, loc>>

\* the head of the loop of the frame f on top of the stack: the next child is
\* called from the recorded position, or the loop is over and match returns
walkLooped(w, f) ==
    IF f.k > Len(f.t.children)
    THEN Walk("ret", f.t, SubSeq(w.stack, 1, Len(w.stack) - 1), w.it,
              IF Len(f.t.matches) # 0 /\ level(w.it) > f.t.level
              THEN f.t.matches[1] ELSE NilMatch,
              w.count, 0, w.steps + 1)
    ELSE Walk("call", f.t.children[f.k],
              [w.stack EXCEPT ![Len(w.stack)].p = position(w.it)],
              w.it, NilMatch, w.count, 0, w.steps + 1)

WalkLoop ==
    /\ pout.op = "walk" /\ pout.mode = "loop" /\ ~pout.done
    /\ pout' = walkLooped(pout, pout.stack[Len(pout.stack)])
    /\ UNCHANGED <<aliases, routes, matchers, ret, pin, mutex, pc, loc>>

\* a return of trieNode.match: to trie.match, or into the loop of the caller,
\* which returns the match or restores the position and goes on
walkReturned(w) ==
    IF Len(w.stack) = 0 THEN [w EXCEPT !.done = TRUE]
    ELSE IF w.m # NilMatch
    THEN Walk("ret", w.node, SubSeq(w.stack, 1, Len(w.stack) - 1), w.it, w.m,
              w.count, 0, w.steps + 1)
    ELSE Walk("loop", w.node,
              [w.stack EXCEPT ![Len(w.stack)].k = w.stack[Len(w.stack)].k + 1],
              setPosition(w.it, w.stack[Len(w.stack)].p), NilMatch,
              w.count, 0, w.steps + 1)

WalkRet ==
    /\ pout.op = "walk" /\ pout.mode = "ret" /\ ~pout.done
    /\ pout' = walkReturned(pout)
    /\ UNCHANGED <<aliases, routes, matchers, ret, pin, mutex, pc, loc>>

NextLoop ==
    \/ \E kind \in {"path", "string", "int"} : StartLoop(kind)
    \/ StepPath
    \/ StepString
    \/ StepInt
    \/ StartWalk
    \/ WalkCall
    \/ WalkMatch
    \/ WalkLoop
    \/ WalkRet

SpecLoop == InitLoop /\ [][NextLoop]_vars /\ WF_vars(NextLoop)

----
(* newTrieMatcher on patterns made of literal bytes and <...> groups *)

\* the pieces the patterns are made of: the bytes / a < > : and the groups
\* <x>, <string:x>, <path:x>, <int:x>, <u:x>, <string:x:y> and <>
NewPieces ==
    {<<47>>, <<97>>, <<60>>, <<62>>, <<58>>,
     <<60, 120, 62>>,
     <<60>> \o TypeString \o <<58, 120, 62>>,
     <<60>> \o TypePath \o <<58, 120, 62>>,
     <<60>> \o TypeInt \o <<58, 120, 62>>,
     <<60, 117, 58, 120, 62>>,
     <<60>> \o TypeString \o <<58, 120, 58, 121, 62>>,
     <<60, 62>>}

\* the patterns: up to MaxLen pieces in a row
NewPatterns ==
    {Concat(ps) : ps \in UNION {[1..n -> NewPieces] : n \in 0..MaxLen}}

InitNew ==
    /\ routes = EmptyRoutes
    /\ matchers = <<>>
    /\ ret = Ret("New", <<>>, 0, NoReq, EmptyRoutes, FALSE, 0)
    /\ pin \in NewPatterns
    /\ pout = NoOut
    /\ RouterIdle

\* newTrieMatcher(pin, &pathMapper{}, result)
DoNew ==
    /\ pout' = [m |-> newTrieMatcher(pin, pathMapper, Result1), op |-> "new"]
    /\ UNCHANGED <<aliases, routes, matchers, ret, pin, mutex, pc, loc>>

NextNew == DoNew

SpecNew == InitNew /\ [][NextNew]_vars

----
(* The router under concurrent callers.  Every operation takes the lock,   *)
(* reads or writes r.routes and r.matchers step by step, and releases the  *)
(* lock (the deferred RUnlock / Unlock).                                   *)

\* the number of goroutines calling the router
NumProcs == 2

Procs == 1..NumProcs

\* the expressions and requests the concurrent callers use
ConcExprs == {ExprA, ExprReB, ExprBad}

ConcRequests == {Req(<<71>>, <<104>>, p, NoHeader) : p \in {<<47, 97>>, <<47, 98>>}}

ConcInputs == {EmptyRoutes, [e \in {ExprA, ExprBad} |-> 1]}

\* the locals of a goroutine: outside a call, in Route, in GetRoute, in a mutation
LocIdle == [op |-> "none"]

LocRoute(req, ms, k, out) == [k |-> k, ms |-> ms, op |-> "Route", req |-> req, out |-> out]

LocGet(expr, out) == [expr |-> expr, op |-> "GetRoute", out |-> out]

LocMut(n) == [n |-> n, op |-> "Mutation"]

InitConc ==
    /\ routes = EmptyRoutes
    /\ matchers = <<>>
    /\ ret = Ret("New", <<>>, 0, NoReq, EmptyRoutes, FALSE, 0)
    /\ pin = TrieIdle
    /\ pout = NoOut
    /\ aliases = <<>>
    /\ mutex = [r |-> {}, w |-> 0]
    /\ pc = [p \in Procs |-> "idle"]
    /\ loc = [p \in Procs |-> LocIdle]

\* sync.RWMutex: RLock waits while a writer holds the lock
canRLock(mu) == mu.w = 0

\* sync.RWMutex: Lock waits while a writer or any reader holds the lock
canLock(mu) == mu.w = 0 /\ mu.r = {}

\* a Route call that goes on to read r.matchers without taking the lock
RouteRLock_noLock(p, req) ==
    /\ pc[p] = "idle"
    /\ pc' = [pc EXCEPT ![p] = "route_len"]
    /\ loc' = [loc EXCEPT ![p] = LocRoute(req, <<>>, 0, 0)]
    /\ UNCHANGED <<aliases, routes, matchers, ret, pin, pout, mutex>>

\* Route: r.mutex.RLock()
RouteRLock(p, req) ==
    /\ pc[p] = "idle"
    /\ canRLock(mutex)
    /\ mutex' = [mutex EXCEPT !.r = @ \cup {p}]
    /\ pc' = [pc EXCEPT ![p] = "route_len"]
    /\ loc' = [loc EXCEPT ![p] = LocRoute(req, <<>>, 0, 0)]
    /\ UNCHANGED <<aliases, routes, matchers, ret, pin, pout>>

\* Route: if len(r.matchers) == 0 { return nil, nil }
RouteLen(p) ==
    /\ pc[p] = "route_len"
    /\ pc' = [pc EXCEPT ![p] = IF Len(matchers) = 0 THEN "route_unlock" ELSE "route_range"]
    /\ UNCHANGED <<aliases, routes, matchers, ret, pin, pout, mutex, loc>>

\* Route: the range expression r.matchers is evaluated once
RouteRange(p) ==
    /\ pc[p] = "route_range"
    /\ loc' = [loc EXCEPT ![p] = LocRoute(loc[p].req, matchers, 1, 0)]
    /\ pc' = [pc EXCEPT ![p] = "route_loop"]
    /\ UNCHANGED <<aliases, routes, matchers, ret, pin, pout, mutex>>

\* the locals and the next step after one iteration whose match returned l
routeIter(lc, l) ==
    IF l # NilMatch THEN [pc |-> "route_unlock", loc |-> LocRoute(lc.req, lc.ms, lc.k, l.val)]
    ELSE [pc |-> "route_loop", loc |-> LocRoute(lc.req, lc.ms, lc.k + 1, 0)]

\* Route: one iteration of the loop, or its end
RouteLoop(p) ==
    /\ pc[p] = "route_loop"
    /\ IF loc[p].k > Len(loc[p].ms)
       THEN /\ pc' = [pc EXCEPT ![p] = "route_unlock"]
            /\ loc' = loc
       ELSE LET n == routeIter(loc[p], matcher_match(loc[p].ms[loc[p].k], loc[p].req)) IN
            /\ pc' = [pc EXCEPT ![p] = n.pc]
            /\ loc' = [loc EXCEPT ![p] = n.loc]
    /\ UNCHANGED <<aliases, routes, matchers, ret, pin, pout, mutex>>

\* Route: the deferred r.mutex.RUnlock() and the return
RouteRUnlock(p) ==
    /\ pc[p] = "route_unlock"
    /\ mutex' = [mutex EXCEPT !.r = @ \ {p}]
    /\ pc' = [pc EXCEPT ![p] = "idle"]
    /\ loc' = [loc EXCEPT ![p] = LocIdle]
    /\ UNCHANGED <<aliases, routes, matchers, ret, pin, pout>>

\* GetRoute: r.mutex.RLock()
GetRouteRLock(p, expr) ==
    /\ pc[p] = "idle"
    /\ canRLock(mutex)
    /\ mutex' = [mutex EXCEPT !.r = @ \cup {p}]
    /\ pc' = [pc EXCEPT ![p] = "get_read"]
    /\ loc' = [loc EXCEPT ![p] = LocGet(expr, 0)]
    /\ UNCHANGED <<aliases, routes, matchers, ret, pin, pout>>

\* GetRoute: res, ok := r.routes[expr]
GetRouteRead(p) ==
    /\ pc[p] = "get_read"
    /\ loc' = [loc EXCEPT ![p] = LocGet(loc[p].expr, getRoute(routes, loc[p].expr))]
    /\ pc' = [pc EXCEPT ![p] = "get_unlock"]
    /\ UNCHANGED <<aliases, routes, matchers, ret, pin, pout, mutex>>

\* GetRoute: the deferred r.mutex.RUnlock() and the return
GetRouteRUnlock(p) ==
    /\ pc[p] = "get_unlock"
    /\ mutex' = [mutex EXCEPT !.r = @ \ {p}]
    /\ pc' = [pc EXCEPT ![p] = "idle"]
    /\ loc' = [loc EXCEPT ![p] = LocIdle]
    /\ UNCHANGED <<aliases, routes, matchers, ret, pin, pout>>

\* AddRoute: r.mutex.Lock(); the outcome of the call on the router as it is
\* now is kept in the locals
AddRouteLock(p, expr, val) ==
    /\ pc[p] = "idle"
    /\ canLock(mutex)
    /\ mutex' = [mutex EXCEPT !.w = p]
    /\ pc' = [pc EXCEPT ![p] = "mut_routes"]
    /\ loc' = [loc EXCEPT ![p] = LocMut(addRoute(routes, matchers, expr, val))]
    /\ UNCHANGED <<aliases, routes, matchers, ret, pin, pout>>

\* UpsertRoute: r.mutex.Lock(); the outcome of the call on the router as it is
\* now is kept in the locals
UpsertRouteLock(p, expr, val) ==
    /\ pc[p] = "idle"
    /\ canLock(mutex)
    /\ mutex' = [mutex EXCEPT !.w = p]
    /\ pc' = [pc EXCEPT ![p] = "mut_routes"]
    /\ loc' = [loc EXCEPT ![p] = LocMut(upsertRoute(routes, matchers, expr, val))]
    /\ UNCHANGED <<aliases, routes, matchers, ret, pin, pout>>

\* RemoveRoute: r.mutex.Lock(); the outcome of the call on the router as it is
\* now is kept in the locals
RemoveRouteLock(p, expr) ==
    /\ pc[p] = "idle"
    /\ canLock(mutex)
    /\ mutex' = [mutex EXCEPT !.w = p]
    /\ pc' = [pc EXCEPT ![p] = "mut_routes"]
    /\ loc' = [loc EXCEPT ![p] = LocMut(removeRoute(routes, matchers, expr))]
    /\ UNCHANGED <<aliases, routes, matchers, ret, pin, pout>>

\* InitRoutes: r.mutex.Lock(); the outcome of the call on the router as it is
\* now is kept in the locals
InitRoutesLock(p, input) ==
    /\ pc[p] = "idle"
    /\ canLock(mutex)
    /\ mutex' = [mutex EXCEPT !.w = p]
    /\ pc' = [pc EXCEPT ![p] = "mut_routes"]
    /\ \E n \in initRoutes(routes, matchers, input) : loc' = [loc EXCEPT ![p] = LocMut(n)]
    /\ UNCHANGED <<aliases, routes, matchers, ret, pin, pout>>

\* a mutation: its writes to r.routes
MutRoutes(p) ==
    /\ pc[p] = "mut_routes"
    /\ routes' = loc[p].n.routes
    /\ pc' = [pc EXCEPT ![p] = "mut_matchers"]
    /\ UNCHANGED <<aliases, matchers, ret, pin, pout, mutex, loc>>

\* a mutation: compile's assignment r.matchers = matchers
MutMatchers(p) ==
    /\ pc[p] = "mut_matchers"
    /\ matchers' = loc[p].n.matchers
    /\ pc' = [pc EXCEPT ![p] = "mut_unlock"]
    /\ UNCHANGED <<aliases, routes, ret, pin, pout, mutex, loc>>

\* a mutation: the deferred r.mutex.Unlock() and the return
MutUnlock(p) ==
    /\ pc[p] = "mut_unlock"
    /\ mutex' = [mutex EXCEPT !.w = 0]
    /\ pc' = [pc EXCEPT ![p] = "idle"]
    /\ loc' = [loc EXCEPT ![p] = LocIdle]
    /\ UNCHANGED <<aliases, routes, matchers, ret, pin, pout>>

NextConc ==
    \E p \in Procs :
        \/ \E r \in ConcRequests : RouteRLock(p, r)
        \/ RouteLen(p)
        \/ RouteRange(p)
        \/ RouteLoop(p)
        \/ RouteRUnlock(p)
        \/ \E e \in ConcExprs : GetRouteRLock(p, e)
        \/ GetRouteRead(p)
        \/ GetRouteRUnlock(p)
        \/ \E e \in ConcExprs, v \in Vals : AddRouteLock(p, e, v)
        \/ \E e \in ConcExprs, v \in Vals : UpsertRouteLock(p, e, v)
        \/ \E e \in ConcExprs : RemoveRouteLock(p, e)
        \/ \E input \in ConcInputs : InitRoutesLock(p, input)
        \/ MutRoutes(p)
        \/ MutMatchers(p)
        \/ MutUnlock(p)

SpecConc == InitConc /\ [][NextConc]_vars

----
(* Properties of the router *)

Min(S) == CHOOSE x \in S : \A y \in S : x <= y

\* the indices of the matchers of a list that match a request
Hits(ms, r) == {k \in 1..Len(ms) : matcher_match(ms[k], r) # NilMatch}

\* C1: Route walks the compiled list in order and returns the payload of the
\* first matcher whose match is non-nil; when no matcher matches, or the list
\* is empty, it returns a nil payload and no error.
C1_RouteFirstMatch ==
    ret.op = "Route" =>
        LET hits == Hits(matchers, ret.req) IN
        /\ ~ret.err
        /\ IF hits = {} THEN ret.out = 0
           ELSE ret.out = matcher_match(matchers[Min(hits)], ret.req).val

\* a Route call answered by the first of two matchers that both match, with
\* different payloads
C1_Witness ==
    /\ ret.op = "Route"
    /\ Len(matchers) = 2
    /\ Hits(matchers, ret.req) = {1, 2}
    /\ matcher_match(matchers[1], ret.req).val # matcher_match(matchers[2], ret.req).val
    /\ ret.out = matcher_match(matchers[1], ret.req).val

\* a Route call that misses on a router holding routes
C1_WitnessMiss ==
    /\ ret.op = "Route"
    /\ Len(matchers) > 0
    /\ Hits(matchers, ret.req) = {}
    /\ ret.out = 0

\* the payload a router answers with when it tries every expression of the
\* route map on its own, unmerged, in reverse byte-wise order
naiveRoute(rts, r) ==
    LET exprs == SortReverse(DOMAIN rts)
        hits == {k \in 1..Len(exprs) :
                    matcher_match(parse(exprs[k], rts[exprs[k]]), r) # NilMatch}
    IN IF hits = {} THEN 0 ELSE rts[exprs[Min(hits)]].val

\* C2: after compile, Route returns the payload of the first expression, in
\* reverse-lexicographic order, whose own unmerged matcher matches the
\* request, and nil if none does.
C2_ReverseLexOrder ==
    (ret.op = "Route" /\ matchers = compile(routes).matchers) =>
        ret.out = naiveRoute(routes, ret.req)

\* the match of the trie of the first and of the second expression on their own
OwnMatch1 == matcher_match(parse(pin.p1, Result1), pin.r)
OwnMatch2 == matcher_match(parse(pin.p2, Result2), pin.r)

\* C3: merging two tries parsed from single patterns over the same mapper
\* preserves semantics: the merged trie answers a request with the match of
\* the first trie when that is non-nil and with the match of the second
\* otherwise.
C3_MergePreservesSemantics ==
    pout.op = "merge" =>
        pout.m = (IF OwnMatch1 # NilMatch THEN OwnMatch1 ELSE OwnMatch2)

\* C4: chaining is logical AND: the chained trie of a and b matches a request
\* if and only if a matches it and b matches it.
C4_ChainIsAnd ==
    pout.op = "chain" =>
        (pout.m # NilMatch <=>
            (matcher_match(parsed[pin.p1], pin.r) # NilMatch
             /\ matcher_match(parsed[pin.p2], pin.r) # NilMatch))

\* GetRoute of every expression and Route of every request answer the same
\* before and after the step
SameAnswers ==
    /\ \A e \in Exprs : getRoute(routes', e) = getRoute(routes, e)
    /\ \A r \in Requests : routeMatch(matchers', r) = routeMatch(matchers, r)

\* C5: a failing AddRoute or UpsertRoute has no side effect: the route map
\* and the compiled list are the ones from before the call, so GetRoute and
\* Route answer what they answered before.
C5_FailedMutationNoSideEffect ==
    [][(ret'.op \in {"AddRoute", "UpsertRoute"} /\ ret'.err) =>
          (routes' = routes /\ matchers' = matchers /\ SameAnswers)]_vars

\* a failed AddRoute or UpsertRoute of a malformed expression on a router
\* that holds routes
C5_Witness ==
    /\ ret.op \in {"AddRoute", "UpsertRoute"}
    /\ ret.err
    /\ parse(ret.expr, Match(ret.expr, ret.val)) = ErrMatcher
    /\ Len(matchers) > 0
    /\ DOMAIN routes # {}

\* C6: InitRoutes is an atomic bulk replace: when it succeeds the route map
\* is exactly the given map; when it returns an error the route map and the
\* compiled list are both what they were before the call.
C6_InitRoutesAtomic ==
    [][ret'.op = "InitRoutes" =>
          IF ret'.err THEN routes' = routes /\ matchers' = matchers /\ SameAnswers
          ELSE routes' = newRoutes(ret'.arg)]_vars

\* C7: after every completed mutation, failed or not, the compiled list is
\* the compilation of the current route map: an expression has its result in
\* the compiled list if and only if it is a key of the route map.
C7_CompiledIsCompileOfRoutes ==
    ret.op \in {"AddRoute", "UpsertRoute", "RemoveRoute", "InitRoutes"} =>
        matchers = compile(routes).matchers

\* C8: mutations exclude each other and every Route and GetRoute, and a
\* Route call evaluates one complete compiled list: the list it ranges over
\* is the list of the router for as long as it holds the lock, and its
\* answer is the answer of that list.
C8_SingleWriterManyReaders ==
    /\ \A p \in Procs : mutex.w = p => \A q \in Procs \ {p} : pc[q] = "idle"
    /\ \A p \in Procs : pc[p] \in {"mut_routes", "mut_matchers", "mut_unlock"} => mutex.w = p
    /\ \A p \in Procs : pc[p] = "route_range" => Len(matchers) # 0
    /\ \A p \in Procs : pc[p] = "route_loop" => loc[p].ms = matchers
    /\ \A p \in Procs :
          pc[p] = "route_unlock" => loc[p].out = routeMatch(matchers, loc[p].req).val
    /\ \A p \in Procs : pc[p] = "get_unlock" => loc[p].out = getRoute(routes, loc[p].expr)

\* two Route calls overlap on a router that holds two matchers, one of them
\* about to return the payload of the second matcher
C8_Witness ==
    /\ Len(matchers) = 2
    /\ \E p \in Procs : \E q \in Procs \ {p} :
          /\ pc[p] = "route_unlock"
          /\ loc[p].k = 2
          /\ loc[p].out # 0
          /\ pc[q] = "route_loop"

\* C9: AddRoute of an expression that is already present returns an error
\* and has no side effect: the expression stays bound to its payload and
\* Route answers as before.
C9_AddDuplicateFails ==
    [][(ret'.op = "AddRoute" /\ ret'.expr \in DOMAIN routes) =>
          /\ ret'.err
          /\ routes' = routes
          /\ matchers' = matchers
          /\ getRoute(routes', ret'.expr) = routes[ret'.expr].val
          /\ SameAnswers]_vars

\* a failed AddRoute of a present expression with another payload than the
\* one it is bound to, on a router that answers a request with that binding
C9_Witness ==
    /\ ret.op = "AddRoute"
    /\ ret.err
    /\ ret.expr \in DOMAIN routes
    /\ routes[ret.expr].val # ret.val
    /\ \E r \in Requests : routeMatch(matchers, r) = routes[ret.expr]

\* C10: UpsertRoute of a valid expression replaces or inserts: it succeeds,
\* GetRoute of the expression returns the new payload, Route returns the
\* new payload for the requests the expression wins, and the payload bound
\* to every other expression is unchanged.
C10_UpsertReplacesOrInserts ==
    [][(ret'.op = "UpsertRoute" /\ parse(ret'.expr, BlankMatch) # ErrMatcher) =>
          /\ ~ret'.err
          /\ getRoute(routes', ret'.expr) = ret'.val
          /\ DOMAIN routes' = DOMAIN routes \cup {ret'.expr}
          /\ \A e \in Exprs \ {ret'.expr} : getRoute(routes', e) = getRoute(routes, e)
          /\ \A r \in Requests :
                routeMatch(matchers', r).id = ret'.expr =>
                    routeMatch(matchers', r).val = ret'.val]_vars

\* a successful UpsertRoute next to a route with another payload, on a router
\* that answers a request with the upserted binding
C10_Witness ==
    /\ ret.op = "UpsertRoute"
    /\ ~ret.err
    /\ getRoute(routes, ret.expr) = ret.val
    /\ \E e \in DOMAIN routes : routes[e].val # ret.val
    /\ \E r \in Requests : routeMatch(matchers, r) = Match(ret.expr, ret.val)

\* C11: RemoveRoute of an expression that is not present returns no error
\* and leaves the route map and the compiled list as they were, so a second
\* RemoveRoute of an expression changes nothing.
C11_RemoveAbsentNoChange ==
    [][(ret'.op = "RemoveRoute" /\ ret'.expr \notin DOMAIN routes) =>
          (~ret'.err /\ routes' = routes /\ matchers' = matchers)]_vars

\* a RemoveRoute that follows a RemoveRoute of the same expression leaves
\* the router as the first one left it
C11_RemoveTwiceIsOnce ==
    [][(ret.op = "RemoveRoute" /\ ret'.op = "RemoveRoute" /\ ret'.expr = ret.expr) =>
          (~ret'.err /\ routes' = routes /\ matchers' = matchers)]_vars

\* the router after RemoveRoute(e) applied to the outcome a of an AddRoute
removedAfter(a, e) == removeRoute(a.routes, a.matchers, e)

\* AddRoute(e, v) then RemoveRoute(e) on the router (rts, ms) both succeed and
\* leave GetRoute(e) nil and the answer of Route to every request as it was
RoundTrip(rts, ms, e, v) ==
    /\ ~addRoute(rts, ms, e, v).err
    /\ ~removedAfter(addRoute(rts, ms, e, v), e).err
    /\ getRoute(removedAfter(addRoute(rts, ms, e, v), e).routes, e) = 0
    /\ \A r \in Requests :
          routeMatch(removedAfter(addRoute(rts, ms, e, v), e).matchers, r).val
              = routeMatch(ms, r).val

\* C12: from every router state in which a valid expression e is absent,
\* AddRoute(e, v) followed by RemoveRoute(e) leaves GetRoute(e) nil and Route
\* answering every request with the payload it answered with at the start.
C12_InsertRemoveRoundTrip ==
    \A e \in GoodExprs \ DOMAIN routes : \A v \in Vals :
        RoundTrip(routes, matchers, e, v)

\* the round trip on the routers whose compiled list is the compilation of
\* their route map
C12_RoundTripWhenCompiled ==
    matchers = compile(routes).matchers =>
        \A e \in GoodExprs \ DOMAIN routes : \A v \in Vals :
            RoundTrip(routes, matchers, e, v)

\* the literal patterns registered in the route map
Registered(rts) == {p \in LitPaths : LitExpr(p) \in DOMAIN rts}

\* C13: on a router that holds Path routes with literal patterns, a request
\* whose path is a registered pattern is answered with the route of that
\* pattern, also when a prefix or an extension of it is registered, and a
\* request whose path is no registered pattern is answered with nil.
C13_ExactLiteralMatch ==
    ret.op = "Route" =>
        IF pathMapper_mapRequest(ret.req) \in Registered(routes)
        THEN /\ routeMatch(matchers, ret.req) = routes[LitExpr(pathMapper_mapRequest(ret.req))]
             /\ ret.out = routes[LitExpr(pathMapper_mapRequest(ret.req))].val
        ELSE ret.out = 0

\* /r, /r/h and / are registered, /r and /r/h with different payloads, and
\* a request for /r/h got the payload of /r/h
C13_Witness ==
    /\ ret.op = "Route"
    /\ ret.req.path = <<47, 114, 47, 104>>
    /\ {<<47>>, <<47, 114>>, <<47, 114, 47, 104>>} \subseteq Registered(routes)
    /\ routes[LitExpr(<<47, 114>>)].val # routes[LitExpr(<<47, 114, 47, 104>>)].val
    /\ ret.out = routes[LitExpr(<<47, 114, 47, 104>>)].val

\* /r and /r/h are registered and a request for /r/hq got nil
C13_WitnessMiss ==
    /\ ret.op = "Route"
    /\ ret.req.path = <<47, 114, 47, 104, 113>>
    /\ {<<47, 114>>, <<47, 114, 47, 104>>} \subseteq Registered(routes)
    /\ ret.out = 0

\* the request satisfies Host("h") && Method("P") && Path("/r"): each of the
\* three matchers on its own matches it
SatisfiesE(r) ==
    \A e \in {ExprHostH, ExprMethP, ExprPathR} : matcher_match(parsed[e], r) # NilMatch

\* the header c of the request has the value j
HeaderIsJ(r) == matcher_match(parsed[ExprHdrCJ], r) # NilMatch

\* C14: with E and E && Header("c", "j") registered together, a request that
\* satisfies E is answered with the route of E && Header when its header c
\* is j and with the route of E when the header is absent or has another
\* value; a request that does not satisfy E is answered with nil.
C14_HeaderFallback ==
    (ret.op = "Route" /\ DOMAIN routes = HdrExprs) =>
        /\ routeMatch(matchers, ret.req) =
              (IF ~SatisfiesE(ret.req) THEN NilMatch
               ELSE IF HeaderIsJ(ret.req) THEN routes[ExprEH] ELSE routes[ExprE])
        /\ ret.out = routeMatch(matchers, ret.req).val

\* both routes are registered with different payloads and a request that
\* satisfies E and carries the header c with the value jx got the payload of E
C14_Witness ==
    /\ ret.op = "Route"
    /\ DOMAIN routes = HdrExprs
    /\ routes[ExprE].val # routes[ExprEH].val
    /\ SatisfiesE(ret.req)
    /\ <<99>> \in DOMAIN ret.req.header
    /\ ret.req.header[<<99>>] = <<106, 120>>
    /\ ret.out = routes[ExprE].val

\* both routes are registered with different payloads and a request with
\* the header c of value j got the payload of E && Header("c", "j")
C14_WitnessHeader ==
    /\ ret.op = "Route"
    /\ DOMAIN routes = HdrExprs
    /\ routes[ExprE].val # routes[ExprEH].val
    /\ SatisfiesE(ret.req)
    /\ HeaderIsJ(ret.req)
    /\ ret.out = routes[ExprEH].val

\* the expressions of the route map as compile sorts them, and the matcher
\* each is parsed to on its own
Sorted == SortReverse(DOMAIN routes)
Own(k) == parse(Sorted[k], routes[Sorted[k]])

\* the expressions whose results a trie node, and a matcher, answers with
RECURSIVE nodeIds(_)
nodeIds(t) ==
    {t.matches[k].id : k \in 1..Len(t.matches)}
    \cup UNION {nodeIds(t.children[k]) : k \in 1..Len(t.children)}

RECURSIVE matcherIds(_)
matcherIds(m) ==
    IF m.type = "trie" THEN nodeIds(m.root)
    ELSE IF m.type = "regexp" THEN {m.result.id}
    ELSE matcherIds(m.a) \cup matcherIds(m.b)

\* the positions after which a run of consecutive tries with equivalent
\* mappers ends: the matcher there cannot merge with its successor
Breaks == {k \in 1..(Len(Sorted) - 1) : ~canMerge(Own(k), Own(k + 1))}

\* the number of the maximal run position k lies in
RunOf(k) == 1 + Cardinality({b \in Breaks : b < k})

\* C15, as stated: in reverse-lexicographic order each maximal run of
\* consecutive tries with equivalent mappers becomes exactly one compiled
\* matcher, regexp matchers and and-matchers are never merged, and no
\* compiled matcher reports canMerge for its successor.
C15_CompileCollapsesRuns ==
    ret.op \in {"AddRoute", "RemoveRoute"} =>
        /\ Len(matchers) = (IF Len(Sorted) = 0 THEN 0 ELSE Cardinality(Breaks) + 1)
        /\ \A k \in 1..Len(Sorted) :
              /\ RunOf(k) <= Len(matchers)
              /\ Sorted[k] \in matcherIds(matchers[RunOf(k)])
              /\ Own(k).type # "trie" => matchers[RunOf(k)] = Own(k)
        /\ \A j \in 1..(Len(matchers) - 1) : ~canMerge(matchers[j], matchers[j + 1])

\* the positions of the sorted expressions that compiled matcher j answers for
Covered(j) == {k \in 1..Len(Sorted) : Sorted[k] \in matcherIds(matchers[j])}

\* C15, amended: the compiled matchers cover consecutive runs of the sorted
\* expressions, in order; a matcher that covers more than one expression is
\* a trie, every trie of its run has a mapper equivalent to the mapper of the
\* merged trie, and a regexp matcher or and-matcher is the matcher of one
\* expression; no compiled matcher reports canMerge for its successor.  A
\* run ends where the next trie is not mergeable with the trie merged so
\* far, which for sequence mappers of different lengths can be before the
\* end of a run of pairwise mergeable neighbours.
C15_CompileCollapsesMergedRuns ==
    ret.op \in {"AddRoute", "RemoveRoute"} =>
        /\ \A k \in 1..Len(Sorted) : \E j \in 1..Len(matchers) : k \in Covered(j)
        /\ \A j \in 1..Len(matchers) :
              /\ Covered(j) # {}
              /\ \A k \in Covered(j) : \A l \in Covered(j) :
                    \A x \in k..l : x \in Covered(j)
              /\ \A i \in 1..(j - 1) : \A k \in Covered(i) : \A l \in Covered(j) : k < l
              /\ \A k \in Covered(j) :
                    IF Own(k).type = "trie"
                    THEN /\ matchers[j].type = "trie"
                         /\ equivalent(matchers[j].mapper, Own(k).mapper) = matchers[j].mapper
                    ELSE matchers[j] = Own(k)
        /\ \A j \in 1..(Len(matchers) - 1) : ~canMerge(matchers[j], matchers[j + 1])

\* all six expressions are compiled: the regexp matcher, the and-matcher and
\* the trie over the path stay apart, and of the three chained tries the
\* first two are merged while the third, mergeable with the second on its
\* own, is not
C15_Witness ==
    /\ ret.op = "AddRoute"
    /\ DOMAIN routes = CmpExprs
    /\ Len(matchers) = 5
    /\ matchers[1].type = "regexp"
    /\ matchers[2].type = "and"
    /\ matcherIds(matchers[4]) = {ExprHCR, ExprHB}
    /\ canMerge(Own(5), Own(6))
    /\ matcherIds(matchers[5]) = {ExprHAH}

\* the number of bytes of the sequence that lie before the iterator
RECURSIVE lenBefore(_, _)
lenBefore(seq, si) == IF si = 0 THEN 0 ELSE Len(seq[si]) + lenBefore(seq, si - 1)

offset(c) == lenBefore(c.seq, c.si) + c.i

\* the bytes between the positions of the iterators a and b
Consumed(a, b) == SubSeq(Concat(a.seq), offset(a) + 1, offset(b))

AllDigits(s) == \A k \in 1..Len(s) : IsDigit(s[k])

\* the iterator stands before a byte that is the separator of its string
BeforeSeparator(c) == next(c).ok /\ next(c).b = next(c).sep

\* C16: when the int matcher returns true the iterator stands immediately
\* after the last digit of the value: the bytes it passed are digits and it
\* stands before the separator that ended them, or at the end of the input
\* when the digits reach the end of the input.
C16_IntMatchPosition ==
    (pout.op = "int" /\ pout.ok) =>
        /\ offset(pin) <= offset(pout.it)
        /\ AllDigits(Consumed(pin, pout.it))
        /\ BeforeSeparator(pout.it) \/ isEnd(pout.it)

\* the int matcher returned true on digits followed by the separator and the
\* iterator stands before that separator
C16_WitnessSeparator ==
    /\ pout.op = "int"
    /\ pout.ok
    /\ offset(pout.it) > offset(pin)
    /\ AllDigits(Consumed(pin, pout.it))
    /\ BeforeSeparator(pout.it)

\* C17: when the int matcher returns false the iterator is at the position
\* it had on entry, also when the bytes it read crossed the boundary between
\* two strings, so a sibling string matcher then sees the same input.
C17_IntRejectRestores ==
    (pout.op = "int" /\ ~pout.ok) =>
        /\ pout.it = pin
        /\ position(pout.it) = position(pin)
        /\ stringMatcher_grabValue(pout.it) = stringMatcher_grabValue(pin)

\* the int matcher returned false after it read digits up to the end of the
\* first string and the byte 'a' at the start of the second
C17_Witness ==
    /\ pout.op = "int"
    /\ ~pout.ok
    /\ Len(pin.seq) = 2
    /\ pin.si = 0
    /\ pin.i < Len(pin.seq[1])
    /\ AllDigits(SubSeq(pin.seq[1], pin.i + 1, Len(pin.seq[1])))
    /\ Len(pin.seq[2]) > 0
    /\ pin.seq[2][1] = 97

\* the separator of the string each byte of the sequence came from
RECURSIVE sepsOf(_, _, _)
sepsOf(seq, sep, k) ==
    IF k > Len(seq) THEN <<>>
    ELSE [j \in 1..Len(seq[k]) |-> sep[k]] \o sepsOf(seq, sep, k + 1)

\* no byte between the iterators a and b is the separator of its string
NoSeparatorIn(a, b) ==
    \A k \in (offset(a) + 1)..offset(b) :
        Concat(a.seq)[k] # sepsOf(a.seq, a.sep, 1)[k]

\* no string of the sequence from the one the iterator is in is empty
NoEmptyFrom(c) == \A k \in (c.si + 1)..Len(c.seq) : Len(c.seq[k]) > 0

C18_WitnessPath ==
    /\ pout.op = "path"
    /\ pout.ok
    /\ Len(pin.seq) = 2
    /\ pin.si = 0
    /\ \E k \in (pin.i + 1)..Len(pin.seq[1]) : pin.seq[1][k] = pin.sep[1]
    /\ Len(pin.seq[2]) > 0
    /\ offset(pout.it) = Len(Concat(pin.seq))

----
(* C19 *)

\* the expressions a registration names, each with its handler
registeredPairs ==
    IF ret.op \in {"Handle", "HandleFunc"} THEN {<<ret.expr, ret.val>>}
    ELSE IF ret.op = "InitHandlers" THEN {<<k, ret.arg[k]>> : k \in DOMAIN ret.arg}
    ELSE {}

\* the registered expressions that hold the handler
holders(handler) == {k \in DOMAIN routes : routes[k].val = handler}

\* a registration through one of ops that succeeded and left exactly one route
\* with the handler, followed at once by Remove of the same expression: Remove
\* returns nil and the requests the handler served get the not-found response
RemoveUndoes(ops) ==
    \A p \in registeredPairs :
        (/\ ret.op \in ops
         /\ ~ret.err
         /\ Cardinality(holders(p[2])) = 1
         /\ ret'.op = "Remove"
         /\ ret'.expr = p[1])
        => /\ ~ret'.err
           /\ \A r \in MuxRequests :
                  serveHTTP(matchers, r) = p[2]
                  => serveHTTP(matchers', r) = StatusNotFound

\* C19: under any alias list, a handler registered for an expression through
\* Handle, HandleFunc or InitHandlers is removed by Remove of that expression:
\* Remove returns nil and every request the handler served gets the not-found
\* response afterwards.
C19_RemoveUnderAliases ==
    [][RemoveUndoes({"Handle", "HandleFunc", "InitHandlers"})]_vars

\* C19 for handlers registered through Handle or InitHandlers only
C19_RemoveAfterHandle == [][RemoveUndoes({"Handle", "InitHandlers"})]_vars

\* C19 for HandleFunc when applying the aliases twice gives what applying
\* them once gives
C19_RemoveAfterHandleFuncIdempotent ==
    [][(applyAliases(aliases, applyAliases(aliases, ret.expr))
            = applyAliases(aliases, ret.expr))
       => RemoveUndoes({"HandleFunc"})]_vars

\* Remove(Path("/q")) has returned nil under the aliases Path("/r") -> Path("/x"),
\* Path("/q") -> Path("/r"), and /x is still served
C19_WitnessStillServed ==
    /\ ret.op = "Remove"
    /\ ret.expr = LitExpr(<<47, 113>>)
    /\ ~ret.err
    /\ Len(aliases) = 2
    /\ aliases[1].match = LitExpr(<<47, 114>>)
    /\ aliases[2].match = LitExpr(<<47, 113>>)
    /\ serveHTTP(matchers, Req(<<71>>, <<104>>, <<47, 120>>, NoHeader)) # StatusNotFound

----
(* C20 *)

\* the host of a request without its port
withoutPort(host) ==
    IF IndexFrom(host, 58, 1) = 0 THEN host
    ELSE SubSeq(host, 1, IndexFrom(host, 58, 1) - 1)

\* C20: a Host matcher with a literal pattern matches a request exactly when
\* the pattern in lower case equals the host of the request in lower case
\* without its port.
C20_HostCaseInsensitive ==
    pout.op = "host" =>
        ((pout.m # NilMatch) <=> (ToLower(pin.p1) = ToLower(withoutPort(pin.r.host))))

\* a pattern and a host that differ in case, the host with a port, have matched
C20_Witness ==
    /\ pout.op = "host"
    /\ pout.m # NilMatch
    /\ pin.p1 # ToLower(pin.p1)
    /\ pin.r.host # ToLower(pin.r.host)
    /\ pin.p1 # withoutPort(pin.r.host)
    /\ withoutPort(pin.r.host) # pin.r.host

\* a pattern and a host of the same length that differ in a letter, not only
\* in case, have not matched
C20_WitnessMiss ==
    /\ pout.op = "host"
    /\ pout.m = NilMatch
    /\ Len(pin.p1) = Len(withoutPort(pin.r.host))
    /\ ToLower(pin.p1) # ToLower(withoutPort(pin.r.host))

----
(* C21 *)

\* C21: the answer of the router is a function of its route map: after any
\* sequence of successful AddRoute, UpsertRoute, RemoveRoute and InitRoutes
\* calls every request gets the payload that the compilation of the current
\* route map gives it, so two routers with the same bindings agree on every
\* request, and a Route call returns that payload each time it is repeated.
C21_Determinism ==
    /\ \A r \in Requests :
           routeMatch(matchers, r) = routeMatch(compile(routes).matchers, r)
    /\ ret.op = "Route" =>
           ret.out = routeMatch(compile(routes).matchers, ret.req).val

\* a Route call answered with a payload by a router that holds two routes,
\* after a route was replaced or removed
C21_Witness ==
    /\ ret.op = "Route"
    /\ ret.out # 0
    /\ Cardinality(DOMAIN routes) = 2
    /\ Len(matchers) = 1

----
(* C22 *)

\* the bytes of the sequence from the position of the iterator on, each with
\* the separator of the string it came from
Remaining(c) ==
    [k \in 1..(Len(Concat(c.seq)) - offset(c)) |->
        <<Concat(c.seq)[offset(c) + k], sepsOf(c.seq, c.sep, 1)[offset(c) + k]>>]

\* no string before the last one, from the one the iterator is in, is empty
NoEmptyBeforeLast(c) == \A k \in (c.si + 1)..(Len(c.seq) - 1) : Len(c.seq[k]) > 0

\* calling next() until it returns ok = false has yielded the bytes that were
\* left, in order, each with its separator, and next() then returns ok = false
\* again without moving the cursor
UnwindsAll ==
    /\ pout.out = Remaining(pin)
    /\ ~pout.ok
    /\ pout.it = unwind(pin, <<>>).it
    /\ offset(pout.it) = Len(Concat(pin.seq))

\* C22: for any sequence of strings with their separators, calling next()
\* until it returns ok = false yields the bytes of the concatenation of the
\* strings, in order, each with the separator of its string; ok = false is
\* returned exactly when the iterator is at end on entry, and next() at end
\* does not move the cursor.
C22_UnwindYieldsAll ==
    /\ pout.op = "unwind" => UnwindsAll
    /\ next(pin).ok <=> ~isEnd(pin)
    /\ isEnd(pin) => next(pin).it = pin

\* C22 for the sequences in which no string before the last one is empty
C22_UnwindYieldsAllNoEmpty ==
    /\ (pout.op = "unwind" /\ NoEmptyBeforeLast(pin)) => UnwindsAll
    /\ next(pin).ok <=> ~isEnd(pin)
    /\ isEnd(pin) => next(pin).it = pin

\* the loop has stopped before the bytes of a string that follows an empty one
C22_WitnessEmptyString ==
    /\ pout.op = "unwind"
    /\ Len(pin.seq) = 2
    /\ pin.i = 0 /\ pin.si = 0
    /\ Len(pin.seq[1]) = 0
    /\ Len(pin.seq[2]) > 0
    /\ pout.out = <<>>

----
(* C23 *)

\* C23: pushBack is the inverse of next: after a next() that returned
\* ok = true one pushBack() restores the position held before it, also when
\* the next() moved the cursor from the last byte of a string to the start of
\* the following one; n pushBacks undo n successful nexts; at position (0, 0)
\* pushBack changes nothing.
C23_PushBackInvertsNext ==
    /\ next(pin).ok => position(pushBack(next(pin).it)) = position(pin)
    /\ pout.op = "pushBack" => pout.it = pin
    /\ (pin.i = 0 /\ pin.si = 0) => pushBack(pin) = pin

\* two nexts, the first of which moved the cursor from the last byte of the
\* first string to the start of the second, have been undone by two pushBacks
C23_Witness ==
    /\ pout.op = "pushBack"
    /\ pout.out = 2
    /\ pout.it = pin
    /\ pin.si = 0
    /\ pin.i = Len(pin.seq[1]) - 1
    /\ nextN(pin, 1).si = 1
    /\ nextN(pin, 2).si = 1
    /\ nextN(pin, 2).i = 1

----
(* C24 *)

\* the nodes of the trie under t, t included
RECURSIVE subNodes(_)
subNodes(t) == {t} \cup UNION {subNodes(t.children[k]) : k \in 1..Len(t.children)}

\* the iterator of a request at every position of its strings
Cursors(c) ==
    UNION {{setPosition(c, [i |-> i, si |-> si]) : i \in 0..Len(c.seq[si + 1])} :
              si \in 0..(Len(c.seq) - 1)}

\* the tries of the compiled list
compiledTries == {matchers[k] : k \in {j \in 1..Len(matchers) : matchers[j].type = "trie"}}

\* child k of node t does not match from the iterator i
ChildFails(t, i, k) == trieNode_match(t.children[k], i).m = NilMatch

\* child k of node t does not match from the iterator i after it moved it
ChildLeaks(t, i, k) ==
    /\ ChildFails(t, i, k)
    /\ position(trieNode_match(t.children[k], i).it) # position(i)

\* C24: in trieNode.match, when a child returns no match the iterator is set
\* back to the position recorded before the child was tried, whatever the
\* subtree of the child consumed: the siblings after it are tried from that
\* position, so the loop gives what it gives without the failed child.
C24_BacktrackRestores ==
    \A m \in compiledTries : \A r \in Requests :
        \A t \in subNodes(m.root) : \A i \in Cursors(mapper_newIter(m.mapper, r)) :
            \A k \in 1..Len(t.children) :
                ChildFails(t, i, k) =>
                    /\ matchChildren(t, i, k) = matchChildren(t, i, k + 1)
                    /\ position(matchChild(t, k, position(i),
                                           trieNode_match(t.children[k], i)).it)
                           = position(matchChildren(t, i, k + 1).it)

\* a Route call answered by a sibling that was tried after a child consumed
\* input and failed
C24_Witness ==
    /\ ret.op = "Route"
    /\ ret.out # 0
    /\ \E m \in compiledTries :
           \E t \in subNodes(m.root) : \E i \in Cursors(mapper_newIter(m.mapper, ret.req)) :
               \E k \in 1..Len(t.children) :
                   /\ ChildLeaks(t, i, k)
                   /\ matchChildren(t, i, k + 1).m # NilMatch
                   /\ matchChildren(t, i, k + 1).m.val = ret.out
                   /\ trie_match(m, ret.req) = matchChildren(t, i, k + 1).m

----
(* C25 *)

\* every dimension of the request, as its mapper maps it, equals the literal
\* of that dimension
DimsEqual ==
    /\ hostMapper_mapRequest(pin.r) = pin.p1
    /\ simpleMapRequest(methodMapper, pin.r) = pin.p2
    /\ pin.p3 # <<>> => pathMapper_mapRequest(pin.r) = pin.p3

\* C25: a chained trie whose parts are all literal matches a request exactly
\* when the mapped string of every dimension equals the literal of that
\* dimension: a literal node of one dimension never consumes a byte of the
\* next one, and every dimension is consumed to its end.
C25_NoOverlapBetweenDimensions ==
    pout.op = "dims" => ((pout.m # NilMatch) <=> DimsEqual)

\* the request has not matched although the bytes of its host and method,
\* read as one string, are the bytes of the two literals: the host literal
\* ends with a byte that the request carries at the start of its method
C25_Witness ==
    /\ pout.op = "dims"
    /\ pout.m = NilMatch
    /\ pin.r.host \o pin.r.method = pin.p1 \o pin.p2
    /\ Len(pin.r.host) < Len(pin.p1)
    /\ pin.p3 # <<>>
    /\ pathMapper_mapRequest(pin.r) = pin.p3

\* a request equal to the literals in its three dimensions has matched
C25_WitnessMatch ==
    /\ pout.op = "dims"
    /\ pout.m = Result1
    /\ pin.p3 # <<>>
    /\ DimsEqual

----
(* C26 *)

\* the nodes of a trie without branches, from t down
RECURSIVE pathOf(_)
pathOf(t) == IF Len(t.children) = 0 THEN <<t>> ELSE <<t>> \o pathOf(t.children[1])

\* the nodes of the tries of pin, one after the other, each with the index
\* (from 0) of the trie it came from as its level and without its matches
expectedPath ==
    Concat([k \in 1..Len(lvlTries) |->
        [j \in 1..Len(pathOf(lvlTries[k].root)) |->
            [pathOf(lvlTries[k].root)[j] EXCEPT !.level = k - 1,
                                                !.children = <<>>,
                                                !.matches = <<>>]]])

\* the nodes of the chained trie without their children and matches
chainedPath ==
    [j \in 1..Len(pathOf(pout.m.root)) |->
        [pathOf(pout.m.root)[j] EXCEPT !.children = <<>>, !.matches = <<>>]]

\* C26: after chaining two or three freshly parsed single-pattern tries, in
\* either association order, the top root has level 0, every node that came
\* from the i-th trie (its root included) has level i counted from 0, exactly
\* one node carries a match result, namely the last node of the last trie,
\* and the mapper is the flat sequence of the mappers in order.
C26_LevelsAfterChain ==
    pout.op \in {"chainLeft", "chainRight"} =>
        /\ pout.m.root.level = 0
        /\ \A t \in subNodes(pout.m.root) : Len(t.children) <= 1
        /\ chainedPath = expectedPath
        /\ \A j \in 1..Len(chainedPath) :
               Len(pathOf(pout.m.root)[j].matches) = (IF j = Len(chainedPath) THEN 1 ELSE 0)
        /\ pout.m.mapper.kind = "seq"
        /\ pout.m.mapper.seq = [k \in 1..Len(lvlTries) |-> lvlTries[k].mapper]

\* three tries chained as a.chain(b.chain(c)), the last node on level 2
C26_Witness ==
    /\ pout.op = "chainRight"
    /\ Len(pout.m.mapper.seq) = 3
    /\ pathOf(pout.m.root)[Len(pathOf(pout.m.root))].level = 2
    /\ isPatternMatcher(pathOf(pout.m.root)[Len(pathOf(pout.m.root))])

\* three tries chained as (a.chain(b)).chain(c)
C26_WitnessLeft ==
    /\ pout.op = "chainLeft"
    /\ Len(pout.m.mapper.seq) = 3
    /\ pathOf(pout.m.root)[Len(pathOf(pout.m.root))].level = 2

----
(* C27 *)

\* both nodes are non-pattern nodes with the same char, or both are pattern
\* nodes whose matchers have the same variant and the same name
SameKey(a, b) ==
    \/ ~isPatternMatcher(a) /\ ~isPatternMatcher(b) /\ a.char = b.char
    \/ /\ isPatternMatcher(a) /\ isPatternMatcher(b)
       /\ a.patternMatcher.kind = b.patternMatcher.kind
       /\ a.patternMatcher.name = b.patternMatcher.name

\* C27: trieNode.equals(a, b) is true exactly when the levels of a and b are
\* equal and the nodes are both non-pattern nodes with the same char or both
\* pattern nodes with the same variant and name; two pattern nodes with equal
\* matchers on different levels are not equal.
C27_EqualsNeedsLevel ==
    pout.op = "equals" =>
        (pout.ok <=> (pin.p1.level = pin.p2.level /\ SameKey(pin.p1, pin.p2)))

\* C27 for two nodes on the same level
C27_EqualsOnSameLevel ==
    (pout.op = "equals" /\ pin.p1.level = pin.p2.level) =>
        (pout.ok <=> SameKey(pin.p1, pin.p2))

\* C27 for two nodes that are not both pattern nodes
C27_EqualsOfCharNodes ==
    (pout.op = "equals" /\ ~(isPatternMatcher(pin.p1) /\ isPatternMatcher(pin.p2))) =>
        (pout.ok <=> (pin.p1.level = pin.p2.level /\ SameKey(pin.p1, pin.p2)))

\* equals has returned true for two pattern nodes with the same matcher on
\* different levels
C27_WitnessLevels ==
    /\ pout.op = "equals"
    /\ pout.ok
    /\ isPatternMatcher(pin.p1)
    /\ pin.p1.patternMatcher = pin.p2.patternMatcher
    /\ pin.p1.level # pin.p2.level

----
(* C28 *)

\* the bytes of the sequence from the position of the iterator on
remaining(c) == Len(Concat(c.seq)) - offset(c)

\* a pattern matcher loop has made at most one call of next() more than the
\* input had bytes left, and when it has returned it has returned what the
\* matcher returns
LoopBounded ==
    pout.op \in {"path", "string", "int"} =>
        /\ pout.count <= remaining(pin) + 1
        /\ pout.done =>
              /\ pout.ok = patternMatcher_match([kind |-> pout.op, name |-> <<120>>], pin).ok
              /\ pout.it = patternMatcher_match([kind |-> pout.op, name |-> <<120>>], pin).it

\* the walk of trieNode.match has called match at most once for each node
\* of the trie, and when it has returned it has returned what the trie
\* returns for the request
WalkBounded ==
    pout.op = "walk" =>
        /\ pout.count <= nodeCount(pin.trie.root)
        /\ Len(pout.stack) <= nodeCount(pin.trie.root)
        /\ pout.mode = "match" => pout.n <= Len(Concat(pout.it.seq))
        /\ pout.steps <= (4 + Len(Concat(pout.it.seq))) * nodeCount(pin.trie.root)
        /\ pout.done => pout.m = trie_match(pin.trie, pin.r)

\* C28: Route terminates on every request and every route set: each pattern
\* matcher loop returns after at most one call of next() more than the input
\* has bytes left, the walk of trieNode.match calls match at most once for
\* each node of the trie, and every loop and every walk that has started
\* returns.
C28_RouteTerminates ==
    /\ [](LoopBounded /\ WalkBounded)
    /\ (pout.op # "none") ~> (pout.op # "none" /\ pout.done)

\* a path matcher has returned after one call of next() more than the two
\* strings of the input had bytes
C28_Witness ==
    /\ pout.op = "path"
    /\ pout.done
    /\ Len(pin.seq) = 2
    /\ pout.count = remaining(pin) + 1
    /\ pout.count > 2

\* a walk has returned nil after it called match on every node of a trie with
\* two branches
C28_WitnessWalk ==
    /\ pout.op = "walk"
    /\ pout.done
    /\ pout.m = NilMatch
    /\ pout.count = nodeCount(pin.trie.root)
    /\ \E t \in subNodes(pin.trie.root) : Len(t.children) = 2

----
(* C29 *)

\* the index of the '>' that closes a group opened by the '<' at index i of
\* p, 0 if that '<' opens no group
groupEnd(p, i) ==
    IF p[i] # 60 \/ IndexFrom(p, 62, i + 1) <= i + 1 THEN 0
    ELSE IndexFrom(p, 62, i + 1)

\* some '<' of p opens a group whose type is not string, path or int, or
\* that has more than one argument
BadGroup(p) ==
    \E i \in 1..Len(p) :
        /\ groupEnd(p, i) # 0
        /\ Len(Split(SubSeq(p, i + 1, groupEnd(p, i) - 1), 58)) > 1
        /\ \/ Split(SubSeq(p, i + 1, groupEnd(p, i) - 1), 58)[1]
                  \notin {TypeString, TypePath, TypeInt}
           \/ Len(Split(SubSeq(p, i + 1, groupEnd(p, i) - 1), 58)) > 2

\* p from index i on with every group <name> written <string:name>
RECURSIVE explicitFrom(_, _)
explicitFrom(p, i) ==
    IF i > Len(p) THEN <<>>
    ELSE IF groupEnd(p, i) = 0 THEN <<p[i]>> \o explicitFrom(p, i + 1)
    ELSE IF IndexFrom(SubSeq(p, i, groupEnd(p, i)), 58, 1) = 0
    THEN <<60>> \o TypeString \o <<58>> \o SubSeq(p, i + 1, groupEnd(p, i))
         \o explicitFrom(p, groupEnd(p, i) + 1)
    ELSE SubSeq(p, i, groupEnd(p, i)) \o explicitFrom(p, groupEnd(p, i) + 1)

\* what a node stands for: nothing for the root, <type:name> for a pattern
\* matcher, the byte for a character
nodeText(t) ==
    IF isRoot(t) THEN <<>>
    ELSE IF ~isPatternMatcher(t) THEN <<t.char>>
    ELSE <<60>> \o (IF t.patternMatcher.kind = "string" THEN TypeString
                    ELSE IF t.patternMatcher.kind = "path" THEN TypePath ELSE TypeInt)
         \o <<58>> \o t.patternMatcher.name \o <<62>>

\* the texts of the nodes from t down the first children
RECURSIVE chainText(_)
chainText(t) ==
    IF Len(t.children) = 0 THEN nodeText(t)
    ELSE nodeText(t) \o chainText(t.children[1])

\* t and the nodes under it are a chain whose last node alone holds m
RECURSIVE IsChain(_, _)
IsChain(t, m) ==
    IF Len(t.children) = 0 THEN t.matches = <<m>>
    ELSE Len(t.children) = 1 /\ t.matches = <<>> /\ IsChain(t.children[1], m)

\* C29: newTrieMatcher returns an error and no trie exactly for the empty
\* pattern and for a pattern with a group of an unknown type or with more
\* than one argument; otherwise the trie is a chain from the root whose last
\* node alone holds the result and whose nodes spell the pattern, every
\* group <name> as <string:name> and every '<' that opens no group as the
\* byte itself.
C29_TrieConstruction ==
    pout.op = "new" =>
        /\ (pout.m = ErrMatcher) <=> (Len(pin) = 0 \/ BadGroup(pin))
        /\ pout.m # ErrMatcher =>
              /\ pout.m.type = "trie"
              /\ isRoot(pout.m.root)
              /\ IsChain(pout.m.root, Result1)
              /\ chainText(pout.m.root) = explicitFrom(pin, 1)

\* the trie of <x>< was built: a string matcher named x and the byte '<'
C29_Witness ==
    /\ pout.op = "new"
    /\ pin = <<60, 120, 62, 60>>
    /\ pout.m # ErrMatcher
    /\ chainText(pout.m.root) = <<60>> \o TypeString \o <<58, 120, 62, 60>>

\* a pattern whose second group has two arguments was refused
C29_WitnessError ==
    /\ pout.op = "new"
    /\ pout.m = ErrMatcher
    /\ pin = <<60, 120, 62>> \o <<60>> \o TypeString \o <<58, 120, 58, 121, 62>>

----
(* C30 *)

\* how many times the match m stands in the matches lists of t and of the
\* nodes under it
RECURSIVE heldIn(_, _), heldBelow(_, _, _)
heldIn(t, m) ==
    Cardinality({k \in 1..Len(t.matches) : t.matches[k] = m})
    + heldBelow(t.children, m, 1)

heldBelow(cs, m, k) ==
    IF k > Len(cs) THEN 0
    ELSE heldIn(cs[k], m) + heldBelow(cs, m, k + 1)

\* the terminal positions of a compiled matcher that hold m: nodes of a
\* trie, the regexp matcher, the and-matcher as a whole
heldBy(mt, m) ==
    IF mt.type = "trie" THEN heldIn(mt.root, m)
    ELSE IF mt.type = "regexp" THEN (IF mt.result = m THEN 1 ELSE 0)
    ELSE IF matcherIds(mt) = {m.id} THEN 1 ELSE 0

\* the terminal positions of the compiled matchers from k on that hold m
RECURSIVE heldFrom(_, _)
heldFrom(m, k) ==
    IF k > Len(matchers) THEN 0
    ELSE heldBy(matchers[k], m) + heldFrom(m, k + 1)

\* no node of t or under it has two children that equals() takes for one
NoEqualChildren(t) ==
    \A n \in subNodes(t) :
        \A i \in 1..Len(n.children) : \A j \in 1..Len(n.children) :
            i # j => ~trieNode_equals(n.children[i], n.children[j])

\* C30: after compile the match of every expression of the route map stands
\* at exactly one terminal position of exactly one compiled matcher, the
\* compiled matchers hold no match of an expression outside the route map,
\* and no node of a compiled trie has two children that are equal for merge.
C30_MergeKeepsRoutes ==
    /\ \A e \in DOMAIN routes :
          /\ heldFrom(routes[e], 1) = 1
          /\ Cardinality({j \in 1..Len(matchers) : e \in matcherIds(matchers[j])}) = 1
    /\ \A j \in 1..Len(matchers) :
          /\ matcherIds(matchers[j]) \subseteq DOMAIN routes
          /\ matchers[j].type = "trie" => NoEqualChildren(matchers[j].root)

\* all the routes are compiled: the four Path tries are merged into one trie
\* in which the node of <x> holds the matches of Path("/<x>") and of
\* Path("/<string:x>")
C30_Witness ==
    /\ ret.op = "AddRoute"
    /\ ~ret.err
    /\ DOMAIN routes = AccExprs
    /\ \E j \in 1..Len(matchers) :
          /\ matchers[j].type = "trie"
          /\ {ExprA, ExprX, ExprXB, ExprSX} \subseteq matcherIds(matchers[j])
          /\ \E n \in subNodes(matchers[j].root) :
                {n.matches[k].id : k \in 1..Len(n.matches)} = {ExprX, ExprSX}

====
